---- MODULE Spec2Model ----
(***************************************************************************)
(* State-machine model of the avito-stream watcher core:                   *)
(*   AvitoWatcherService (src/src/avito.watcher.service.ts, the class      *)
(*   that starts at line 918), BindController (src/unnamed/part_003) and   *)
(*   the in-page MutationObserver.                                         *)
(*                                                                         *)
(* JavaScript runs one task at a time, so the code between two awaits is   *)
(* one atomic action of the model.  pc is the await at which runLoop is    *)
(* suspended; stopPc is the await at which onModuleDestroy is suspended.   *)
(***************************************************************************)
EXTENDS Integers, Sequences, FiniteSets, TLC

(***************************************************************************)
(* Bounds of the model.                                                    *)
(***************************************************************************)
MaxIter == 2
MaxAppend == 4
MaxPresented == 3

(***************************************************************************)
(* Locations.  A location string is modelled by the parts the regular      *)
(* expressions of the code look at:                                        *)
(*   host  "avito" = starts with https://www.avito.ru, "rel" = starts with *)
(*         "/", "ext" = another origin, "" = the empty string              *)
(*   seg   "pm" = /profile/messenger, "m" = /messenger, "login", "other"   *)
(*   chan  the id after /channel/ ("" when there is no /channel/ part)     *)
(*   q     "q" = a q= query parameter, "x" = another query, "" = none      *)
(***************************************************************************)
Url(h, s, c, q) == [host |-> h, seg |-> s, chan |-> c, q |-> q]

Empty == Url("", "", "", "")
Blank == Url("ext", "other", "", "")
LoginUrl == Url("avito", "login", "", "")
Root == Url("avito", "pm", "", "")
Search == Url("avito", "pm", "", "q")
ChanA == Url("avito", "pm", "a", "")
ChanB == Url("avito", "pm", "b", "")
RelChanB == Url("rel", "pm", "b", "")

\* isMessengerUrl: /avito\.ru\/(profile\/)?messenger(\/|\?|$)/i
isMessengerUrl(u) == u.host = "avito" /\ u.seg \in {"pm", "m"}

\* isMessengerChannelUrl: /\/messenger\/channel\//i
isMessengerChannelUrl(u) == u.seg \in {"pm", "m"} /\ u.chan # ""

\* page.url().includes('login')
includesLogin(u) == u.seg = "login"

\* BindController.normalizeUrl: a location that starts with "/" gets the origin
normalizeUrl(u) == IF u.host = "rel" THEN [u EXCEPT !.host = "avito"] ELSE u

\* BindController.isChannelUrl: messengerChannelUrlRe or messengerChannelPathRe
isChannelUrl(u) ==
  \/ u.host = "avito" /\ u.seg \in {"pm", "m"} /\ u.chan # ""
  \/ u.seg = "pm" /\ u.chan # ""

\* a faulty classifyUrl: the messenger patterns are tried before the channel
\* patterns
classifyUrlRootFirst(u) ==
  IF isMessengerUrl(u) \/ u.seg = "pm"
  THEN IF u.q = "q" THEN "search" ELSE "messenger"
  ELSE IF isChannelUrl(u) THEN "channel" ELSE "other"

\* a faulty classifyUrl: the query string is not looked at
classifyUrlNoQuery(u) ==
  IF isChannelUrl(u) THEN "channel"
  ELSE IF isMessengerUrl(u) \/ u.seg = "pm" THEN "messenger"
  ELSE "other"

\* BindController.classifyUrl
classifyUrl(u) ==
  IF isChannelUrl(u) THEN "channel"
  ELSE IF isMessengerUrl(u) \/ u.seg = "pm"
       THEN IF u.q = "q" THEN "search" ELSE "messenger"
       ELSE "other"

(***************************************************************************)
(* Messages.  A node of the conversation is the text extractMessageText    *)
(* yields for it; NoiseText stands for a date separator ("сегодня").       *)
(***************************************************************************)
\* texts of the messages a conversation already holds when it is opened
OldTexts == {"M"}
\* texts of the messages that arrive while it is watched
NewTexts == {"A", "B"}
NoiseText == "today"
Nodes == NewTexts \cup {NoiseText}

\* TARGET_CONTACT ?? 'Рушан', trimmed
From == "R"

\* isUiNoise of the in-page code
isUiNoise(t) == t = "" \/ t = NoiseText

\* `${from}|${text}`.trim(): both parts are already trimmed and text is not
\* empty, so trim removes nothing
Fingerprint(from, text) == from \o "|" \o text

VARIABLES
  \* --- configuration (process.env and the build), fixed after Init
  autoBind, headless, direct,
  \* --- AvitoWatcherService fields
  browser, page, stopping, lastFingerprint, bridgeInstalled,
  lastMessengerUrl, supportChatDetected,
  \* --- control: runLoop and onModuleDestroy, locals of openTargetChat
  pc, stopPc, iter, lastAttemptUrl, cand,
  \* --- the browser processes and the page last opened by startBrowser
  openBrowsers, openPages,
  \* --- (pgSkipped: the observer of the page has left a message node
  \* --- uninspected because its grace period was running)
  pgUrl, pgNodes, pgLast, pgObserver, pgGrace, pgSeen, pgSkipped, pgBridge,
  \* --- the binding file .avito-target.json
  bindFile,
  \* --- history variables (what the event bus and the operator saw)
  lastMsg, sessMsgs, presented, floor0, baseMsg, fresh, appended,
  errCount, rec, failure, boundUrl, boundAt,
  \* --- the last status event of openTargetChat and the methods it calls,
  \* --- the number of POST /bind/clear requests answered
  otcStatus, clears,
  \* --- WsGateway: the history buffer and the sockets of server.clients that
  \* --- are OPEN; what was emitted and what each socket was sent
  history, clients, emitted, recv, attachAt, replayed,
  \* --- a location handed to the classifier, the kind classify yields for it
  \* --- and the kind POST /bind/current reports for it as its candidate
  clsIn, clsKind, bindKind,
  \* --- the file system: whether a write can be refused; how the last
  \* --- refused write of the binding file was reported; whether the last
  \* --- dumpDebugArtifacts was cut short by an exception
  diskFault, ioFail, dumpFail,
  \* --- TunnelService: where its life cycle stands, its fields healthTimer
  \* --- and lastHealthSummary, the checks started and those still in
  \* --- flight, the summary of the check that settled last, and the
  \* --- summaries of the health status events emitted
  tunnelPc, healthTimer, lastHealthSummary, healthChecks, healthInflight,
  lastChecked, healthLog,
  \* --- the tabs of the browser as the handlers of installPopupHandlers see
  \* --- them: the location of each tab, the tab this.page refers to, the
  \* --- 'Switched active page' status events, the page events handled
  tabLoc, activeTab, switchLog, tabEvents,
  \* --- CloudpubService: where the module is in its life, this.proc is set,
  \* --- this.stopping, the child process, the last signal sent to it while
  \* --- it lived, the SIGKILL timer and the once('close') listener of
  \* --- stopTunnel, the status events it has emitted, stdio chunks so far
  cpPc, cpProc, cpStopping, cpChild, cpSignal, cpTimer, cpOnce, cpLog,
  cpChunks

cfgVars == <<autoBind, headless, direct, diskFault>>
svcVars == <<browser, page, stopping, lastFingerprint, bridgeInstalled,
             lastMessengerUrl, supportChatDetected>>
ctlVars == <<pc, stopPc, iter, lastAttemptUrl, cand>>
procVars == <<openBrowsers, openPages>>
pageVars == <<pgUrl, pgNodes, pgLast, pgObserver, pgGrace, pgSeen, pgSkipped,
             pgBridge>>
msgVars == <<lastMsg, sessMsgs, presented, floor0, baseMsg, fresh, appended>>
recVars == <<errCount, rec, failure>>
busVars == <<history, clients, emitted, recv, attachAt, replayed>>
fnVars == <<clsIn, clsKind, bindKind>>
dbgVars == <<ioFail, dumpFail>>
tunVars == <<tunnelPc, healthTimer, lastHealthSummary, healthChecks,
             healthInflight, lastChecked, healthLog>>
tabVars == <<tabLoc, activeTab, switchLog, tabEvents>>
cpVars == <<cpPc, cpProc, cpStopping, cpChild, cpSignal, cpTimer, cpOnce,
            cpLog, cpChunks>>
auxVars == <<tabVars, cpVars>>
sideVars == <<fnVars, dbgVars, tunVars, auxVars>>
extVars == <<otcStatus, clears, busVars, sideVars>>

vars == <<cfgVars, svcVars, ctlVars, procVars, pageVars, bindFile,
          msgVars, recVars, boundUrl, boundAt, extVars>>

\* the binding file does not exist
NoFile == Url("nofile", "", "", "")

\* the binding file exists and its text is not JSON: JSON.parse throws
Malformed == Url("file", "malformed", "", "")

\* the path exists and cannot be read: fs.readFileSync throws
Unreadable == Url("file", "unreadable", "", "")

\* an exception leaves the function instead of a value
Raised == Url("raised", "", "", "")

\* how many POST /bind/clear requests a behaviour holds
MaxClears == 1

\* how many events a behaviour of the gateway emits
MaxEmit == 54

\* the WebSocket connections a behaviour of the gateway holds at a time
Sockets == {1, 2}

\* TARGET_CHAT_URL, trimmed: not set, an absolute location, a path
Directs == {Empty, ChanB, RelChanB}

\* the tabs a browser of the supervisor holds: the page of startBrowser and
\* a window the site has opened from it
Tabs == {"main", "popup"}

\* the tab is not open
NoTab == Url("notab", "", "", "")

\* null, as the value of a field that holds a string otherwise
Null == "null"

\* the state after construction, but for the input of the classifier
InitCore ==
  /\ autoBind \in BOOLEAN
  /\ headless \in BOOLEAN
  /\ direct \in Directs
  /\ browser = 0 /\ page = 0 /\ stopping = FALSE
  /\ lastFingerprint = "" /\ bridgeInstalled = FALSE
  /\ lastMessengerUrl = Empty /\ supportChatDetected = FALSE
  /\ pc = "loop" /\ stopPc = "idle" /\ iter = 0
  /\ lastAttemptUrl = Empty /\ cand = Empty
  /\ openBrowsers = {} /\ openPages = {}
  /\ pgUrl = Blank /\ pgNodes = 0 /\ pgLast = ""
  /\ pgObserver = FALSE /\ pgGrace = FALSE /\ pgSeen = <<>> /\ pgBridge = FALSE
  /\ pgSkipped = FALSE
  /\ bindFile \in {NoFile, ChanA}
  /\ lastMsg = "" /\ sessMsgs = <<>> /\ presented = <<>>
  /\ floor0 = "" /\ baseMsg = "" /\ fresh = FALSE /\ appended = 0
  /\ errCount = 0 /\ rec = <<>> /\ failure = ""
  /\ boundUrl = Empty /\ boundAt = 0
  /\ otcStatus = "" /\ clears = 0
  /\ history = <<>> /\ clients = {} /\ emitted = 0
  /\ recv = [c \in Sockets |-> <<>>]
  /\ attachAt = [c \in Sockets |-> 0] /\ replayed = [c \in Sockets |-> 0]
  /\ clsKind = "" /\ bindKind = ""
  /\ diskFault \in BOOLEAN
  /\ ioFail = "" /\ dumpFail = FALSE
  /\ tunnelPc = "constructed" /\ healthTimer = FALSE
  /\ lastHealthSummary = Null /\ healthChecks = 0 /\ healthInflight = 0
  /\ lastChecked = Null /\ healthLog = <<>>
  /\ tabLoc = [t \in Tabs |-> NoTab] /\ activeTab = "none"
  /\ switchLog = <<>> /\ tabEvents = 0
  /\ cpPc = "constructed" /\ cpProc = FALSE /\ cpStopping = FALSE
  /\ cpChild = "none" /\ cpSignal = "" /\ cpTimer = FALSE /\ cpOnce = FALSE
  /\ cpLog = <<>> /\ cpChunks = 0

Init == InitCore /\ clsIn = Empty


(***************************************************************************)
(* Helpers that model methods of AvitoWatcherService.                      *)
(***************************************************************************)

\* maybePersistBoundChatUrl: the content of the binding file after the call
maybePersistBoundChatUrl(url, file) ==
  IF url = Empty THEN file
  ELSE IF ~autoBind THEN file
  ELSE IF ~isMessengerUrl(url) THEN file
  ELSE url

\* fs.writeFileSync of the binding file: whether this call throws
WriteFaults == IF diskFault THEN BOOLEAN ELSE {FALSE}

\* what fs.writeFileSync leaves at the path when it throws: it opens the
\* file in place with flag 'w', so the file is as it was when the open is
\* refused, and cut short (no JSON text) when a write after the open is
\* refused
leftByFailedWrite(file) == {file, Malformed}

\* maybePersistBoundChatUrl gets as far as its try block
persists(url) == url # Empty /\ autoBind /\ isMessengerUrl(url)

\* maybePersistBoundChatUrl as a step: try { writeFileSync; emit info }
\* catch {}.  When the write throws, the empty catch emits nothing
MaybePersist(url) ==
  \E writeThrows \in WriteFaults :
    /\ writeThrows => persists(url)
    /\ IF writeThrows
       THEN /\ bindFile' \in leftByFailedWrite(bindFile)
            /\ ioFail' = "silent"
       ELSE /\ bindFile' = maybePersistBoundChatUrl(url, bindFile)
            /\ UNCHANGED ioFail

\* the try block of readBoundChatUrl; Empty stands for null, and a file
\* that holds a location stands for {"url": that location}
readBoundChatUrlBody(file) ==
  IF file = NoFile THEN Empty
  ELSE IF file \in {Unreadable, Malformed} THEN Raised
  ELSE IF file = Empty THEN Empty
  ELSE IF ~isMessengerChannelUrl(file) THEN Empty
  ELSE file

\* a faulty readBoundChatUrl: no catch around the body
readBoundChatUrlUncaught(file) == readBoundChatUrlBody(file)

\* readBoundChatUrl: try { body } catch { return null }
readBoundChatUrl(file) ==
  IF readBoundChatUrlBody(file) = Raised THEN Empty
  ELSE readBoundChatUrlBody(file)

\* BindController.read, the url of the state it returns: the same try and
\* catch, and no test of the location
read(file) ==
  IF file = NoFile THEN Empty
  ELSE IF file \in {Unreadable, Malformed} THEN Empty
  ELSE file

\* a faulty resolveTargetChatUrl: the binding file is asked first
resolveBindingFirst(d, file) ==
  IF readBoundChatUrl(file) # Empty THEN readBoundChatUrl(file)
  ELSE IF d # Empty THEN [d EXCEPT !.host = "avito"]
  ELSE Empty

\* resolveTargetChatUrl(direct)
resolveTargetChatUrl(d, file) ==
  IF d # Empty
  THEN IF d.host \in {"avito", "ext"} THEN d ELSE [d EXCEPT !.host = "avito"]
  ELSE readBoundChatUrl(file)

\* findMessageContainer needs a common ancestor of at least two message nodes
ContainerThreshold == 2

\* findMessageContainer() # null, from the number of message nodes of the page
containerFound(nodes) == nodes >= ContainerThreshold

\* readLastMessage: the text of the last qualifying node, "" stands for null
readLastMessage(nodes, last) ==
  IF ~containerFound(nodes) THEN "" ELSE last

\* a faulty suppression test: the comparison with the floor is left out
isNewFingerprintNonEmpty(fp, floor) == fp # ""

\* the suppression test shared by the polling branch and the bridge callback
isNewFingerprint(fp, floor) == fp # "" /\ fp # floor

\* captureLastMessageAsBaseline: the floor after the call
captureLastMessageAsBaseline(msg, floor) ==
  IF msg = "" THEN floor ELSE Fingerprint(From, msg)

\* the page opened by this iteration's startBrowser (the `page` constant that
\* openMessengerWithAuth, openTargetChat and watchLoop hold) is still open
OwnPageOpen == iter \in openPages

\* an exception that unwinds to the catch block of runLoop
Throw(kind) ==
  /\ pc' = "catch"
  /\ failure' = kind
  /\ rec' = <<>>

\* bus.emit({type: 'message', ...}) as the history variables see it
EmitMessage(text) ==
  /\ lastMsg' = Fingerprint(From, text)
  /\ sessMsgs' = Append(sessMsgs, text)

\* the history of a watch session is dropped when the session is over (and
\* the catch block drops the last status of openTargetChat with it)
SessionOver ==
  /\ sessMsgs' = <<>> /\ presented' = <<>>
  /\ floor0' = "" /\ baseMsg' = "" /\ fresh' = FALSE

\* page.close(): the document of the page, with its observer and its binding,
\* is gone; page.url() keeps answering with the last location
PageGone(pg) ==
  IF pg # 0
  THEN /\ pgNodes' = 0 /\ pgLast' = "" /\ pgObserver' = FALSE
       /\ pgGrace' = FALSE /\ pgSeen' = <<>> /\ pgSkipped' = FALSE
       /\ pgBridge' = FALSE
       /\ UNCHANGED pgUrl
  ELSE UNCHANGED pageVars

(***************************************************************************)
(* safeClose.  It is suspended at page.close() and at browser.close(); an  *)
(* optional call on an undefined reference awaits nothing real, so the     *)
(* method runs on to its next call in the same task.                       *)
(* The result is the state after the task: the references, the open        *)
(* processes and the await it is suspended at ("page", "browser", "done"). *)
(***************************************************************************)
\* a faulty safeClose: it drops the reference and leaves the browser running
SafeCloseForgetsBrowser(br, oB, oP) ==
  [page |-> 0, browser |-> 0, oB |-> oB, oP |-> oP, at |-> "done"]

SafeCloseBrowserPart(br, oB, oP) ==
  IF br # 0
  THEN [page |-> 0, browser |-> br, oB |-> oB \ {br}, oP |-> oP \ {br},
        at |-> "browser"]
  ELSE [page |-> 0, browser |-> 0, oB |-> oB, oP |-> oP, at |-> "done"]

SafeCloseStart(pg, br, oB, oP) ==
  IF pg # 0
  THEN [page |-> pg, browser |-> br, oB |-> oB, oP |-> oP \ {pg}, at |-> "page"]
  ELSE SafeCloseBrowserPart(br, oB, oP)

(***************************************************************************)
(* runLoop                                                                 *)
(***************************************************************************)

\* a faulty loop head: while (true)
LoopHeadIgnoresStop ==
  /\ pc = "loop"
  /\ iter < MaxIter
  /\ pc' = "launch"
  /\ iter' = iter + 1
  /\ rec' = IF rec = <<>> THEN rec ELSE Append(rec, "start")
  /\ UNCHANGED <<cfgVars, svcVars, stopPc, lastAttemptUrl, cand, procVars,
                 pageVars, bindFile, msgVars, errCount, failure,
                 boundUrl, boundAt, extVars>>

\* while (!this.stopping) { try { await this.startBrowser() ...
\* a faulty loop head: an iteration that failed is not followed by another
LoopHeadGivesUp ==
  /\ pc = "loop"
  /\ IF stopping \/ failure # ""
     THEN /\ pc' = "done"
          /\ UNCHANGED <<iter, rec>>
     ELSE /\ iter < MaxIter
          /\ pc' = "launch"
          /\ iter' = iter + 1
          /\ rec' = IF rec = <<>> THEN rec ELSE Append(rec, "start")
  /\ UNCHANGED <<cfgVars, svcVars, stopPc, lastAttemptUrl, cand, procVars,
                 pageVars, bindFile, msgVars, errCount, failure,
                 boundUrl, boundAt, extVars>>

LoopHead ==
  /\ pc = "loop"
  /\ IF stopping
     THEN /\ pc' = "done"
          /\ UNCHANGED <<iter, rec>>
     ELSE /\ iter < MaxIter
          /\ pc' = "launch"
          /\ iter' = iter + 1
          /\ rec' = IF rec = <<>> THEN rec ELSE Append(rec, "start")
  /\ UNCHANGED <<cfgVars, svcVars, stopPc, lastAttemptUrl, cand, procVars,
                 pageVars, bindFile, msgVars, errCount, failure,
                 boundUrl, boundAt, extVars>>

\* startBrowser: puppeteer.launch resolved, this.browser is set, newPage is asked
LaunchOk ==
  /\ pc = "launch"
  /\ browser' = iter
  /\ openBrowsers' = openBrowsers \cup {iter}
  /\ pc' = "newpage"
  /\ rec' = <<>> /\ errCount' = 0 /\ failure' = ""
  /\ UNCHANGED <<cfgVars, page, stopping, lastFingerprint, bridgeInstalled,
                 lastMessengerUrl, supportChatDetected, stopPc, iter,
                 lastAttemptUrl, cand, openPages, pageVars, bindFile, msgVars,
                 boundUrl, boundAt, extVars>>

\* startBrowser: puppeteer.launch rejected
LaunchFail ==
  /\ pc = "launch"
  /\ Throw("SessionStartFailure")
  /\ errCount' = 0
  /\ UNCHANGED <<cfgVars, svcVars, stopPc, iter, lastAttemptUrl, cand, procVars,
                 pageVars, bindFile, msgVars, boundUrl, boundAt, extVars>>

\* startBrowser: this.page = await this.browser.newPage(), a fresh document
NewPage ==
  /\ pc = "newpage"
  /\ IF iter \in openBrowsers
     THEN /\ page' = iter
          /\ openPages' = openPages \cup {iter}
          /\ pgUrl' = Blank /\ pgNodes' = 0 /\ pgLast' = ""
          /\ pgObserver' = FALSE /\ pgGrace' = FALSE
          /\ pgSeen' = <<>> /\ pgSkipped' = FALSE
          /\ pgBridge' = FALSE
          /\ pc' = "auth"
          /\ UNCHANGED <<failure, rec>>
     ELSE /\ Throw("TargetClosed")
          /\ UNCHANGED <<page, openPages, pageVars>>
  /\ UNCHANGED <<cfgVars, browser, stopping, lastFingerprint, bridgeInstalled,
                 lastMessengerUrl, supportChatDetected, stopPc, iter,
                 lastAttemptUrl, cand, openBrowsers, bindFile, msgVars,
                 errCount, boundUrl, boundAt, extVars>>

\* what openMessengerWithAuth does when the page it needs is gone
AuthPageLost ==
  IF page = 0 THEN "PageNotInitialized"
  ELSE IF ~OwnPageOpen THEN "TargetClosed"
  ELSE ""

\* openMessengerWithAuth: page.goto landed on the messenger, not on login
AuthOpened ==
  /\ pc = "auth"
  /\ IF AuthPageLost # ""
     THEN /\ Throw(AuthPageLost)
          /\ UNCHANGED <<pgUrl, lastMessengerUrl, bindFile, ioFail>>
     ELSE /\ pgUrl' = Root
          /\ lastMessengerUrl' = Root
          /\ MaybePersist(Root)
          /\ pc' = "otc_enter"
          /\ UNCHANGED <<failure, rec>>
  /\ UNCHANGED <<cfgVars, browser, page, stopping, lastFingerprint,
                 bridgeInstalled, supportChatDetected, stopPc, iter,
                 lastAttemptUrl, cand, procVars, pgNodes, pgLast, pgObserver,
                 pgGrace, pgSeen, pgSkipped, pgBridge, msgVars, errCount,
                 boundUrl, boundAt, otcStatus, clears, busVars, fnVars,
                 dumpFail, tunVars, auxVars>>

\* a faulty openMessengerWithAuth: the headless test is left out and the wait
\* for a human login starts in every mode
AuthLoginAlwaysWaits ==
  /\ pc = "auth"
  /\ AuthPageLost = ""
  /\ pgUrl' = LoginUrl
  /\ pc' = "manual_login"
  /\ UNCHANGED <<cfgVars, svcVars, stopPc, iter, lastAttemptUrl, cand, procVars,
                 pgNodes, pgLast, pgObserver, pgGrace, pgSeen, pgSkipped,
                 pgBridge,
                 bindFile, msgVars, recVars, boundUrl, boundAt, extVars>>

\* openMessengerWithAuth: page.goto landed on the login view
AuthLogin ==
  /\ pc = "auth"
  /\ AuthPageLost = ""
  /\ pgUrl' = LoginUrl
  /\ IF headless
     THEN /\ errCount' = errCount + 1
          /\ Throw("AuthenticationRequired")
     ELSE /\ pc' = "manual_login"
          /\ UNCHANGED <<errCount, failure, rec>>
  /\ UNCHANGED <<cfgVars, svcVars, stopPc, iter, lastAttemptUrl, cand, procVars,
                 pgNodes, pgLast, pgObserver, pgGrace, pgSeen, pgSkipped,
                 pgBridge,
                 bindFile, msgVars, boundUrl, boundAt, extVars>>

\* openMessengerWithAuth: every candidate URL looked like a 404
AuthNotFound ==
  /\ pc = "auth"
  /\ AuthPageLost = ""
  /\ Throw("MessengerNotFound")
  /\ UNCHANGED <<cfgVars, svcVars, stopPc, iter, lastAttemptUrl, cand, procVars,
                 pageVars, bindFile, msgVars, errCount,
                 boundUrl, boundAt, extVars>>

\* a faulty wait for a human login: no deadline
ManualLoginNoDeadline ==
  /\ pc = "manual_login"
  /\ ~includesLogin(pgUrl)
  /\ lastMessengerUrl' = pgUrl
  /\ MaybePersist(pgUrl)
  /\ pc' = "otc_enter"
  /\ UNCHANGED <<cfgVars, browser, page, stopping, lastFingerprint,
                 bridgeInstalled, supportChatDetected, stopPc, iter,
                 lastAttemptUrl, cand, procVars, pageVars, msgVars, recVars,
                 boundUrl, boundAt, otcStatus, clears, busVars, fnVars,
                 dumpFail, tunVars, auxVars>>

\* openMessengerWithAuth: the wait for a human login ends, by the page leaving
\* the login view or by the 5 minute deadline
ManualLogin ==
  /\ pc = "manual_login"
  /\ IF includesLogin(pgUrl)
     THEN /\ Throw("AuthenticationTimeout")
          /\ UNCHANGED <<lastMessengerUrl, bindFile, ioFail>>
     ELSE /\ lastMessengerUrl' = pgUrl
          /\ MaybePersist(pgUrl)
          /\ pc' = "otc_enter"
          /\ UNCHANGED <<failure, rec>>
  /\ UNCHANGED <<cfgVars, browser, page, stopping, lastFingerprint,
                 bridgeInstalled, supportChatDetected, stopPc, iter,
                 lastAttemptUrl, cand, procVars, pageVars, msgVars, errCount,
                 boundUrl, boundAt, otcStatus, clears, busVars, fnVars,
                 dumpFail, tunVars, auxVars>>


(***************************************************************************)
(* openTargetChat                                                          *)
(***************************************************************************)

\* the documents a conversation page can show when it has loaded: the number
\* of message nodes (capped at ContainerThreshold) and the last qualifying text
InitialDoms ==
  {[nodes |-> 0, last |-> ""]} \cup
  [nodes : 1..ContainerThreshold, last : OldTexts \cup {""}]

\* the title getChatTitle can read: none, a user's name, a support name
Titles == {"", "user", "support"}

\* a faulty identity guard: every title passes
verifyNotSupportChatAlwaysOk(title) == TRUE

\* verifyNotSupportChat: its result for the title read
verifyNotSupportChat(title) ==
  IF title = "" THEN TRUE
  ELSE IF title = "support" THEN FALSE
  ELSE TRUE

\* entry of openTargetChat: waitForSelector('body') and the first sleep
OtcEnter ==
  /\ pc = "otc_enter"
  /\ IF OwnPageOpen
     THEN /\ lastAttemptUrl' = Empty
          /\ otcStatus' = ""
          /\ pc' = "otc_loop"
          /\ UNCHANGED <<failure, rec>>
     ELSE /\ Throw("TargetClosed")
          /\ UNCHANGED <<lastAttemptUrl, otcStatus>>
  /\ UNCHANGED <<cfgVars, svcVars, stopPc, iter, cand, procVars, pageVars,
                 bindFile, msgVars, errCount, boundUrl, boundAt, clears,
                 busVars, sideVars>>

\* a faulty navigation test: every round navigates
shouldNavigateAlways(last, candidate, support) == TRUE

\* a faulty navigation test: nothing is opened once a support chat was seen
shouldNavigateUnlessSupport(last, candidate, support) == ~support

\* if (lastAttemptUrl !== candidate || !this.supportChatDetected)
shouldNavigate(last, candidate, support) == last # candidate \/ ~support

\* one round of while (!this.stopping) up to its first await
OtcLoop ==
  /\ pc = "otc_loop"
  /\ IF stopping
     THEN /\ pc' = "loop"
          /\ UNCHANGED <<cand, supportChatDetected, failure, rec, otcStatus>>
     ELSE LET candidate == resolveTargetChatUrl(direct, bindFile) IN
          IF candidate = Raised
             THEN /\ Throw("BindReadFailed")
                  /\ UNCHANGED <<cand, supportChatDetected, otcStatus>>
             ELSE IF candidate = Empty
             THEN /\ otcStatus' = IF supportChatDetected THEN "support_wait"
                                  ELSE "not_bound"
                  /\ pc' = "otc_sleep"
                  /\ UNCHANGED <<cand, supportChatDetected, failure, rec>>
             ELSE IF page = 0
             THEN /\ Throw("PageNotInitialized")
                  /\ UNCHANGED <<cand, supportChatDetected, otcStatus>>
             ELSE IF shouldNavigate(lastAttemptUrl, candidate,
                                    supportChatDetected)
             THEN /\ supportChatDetected' = FALSE
                  /\ otcStatus' = "opening"
                  /\ cand' = candidate
                  /\ pc' = "open_goto"
                  /\ UNCHANGED <<failure, rec>>
             ELSE /\ cand' = candidate
                  /\ pc' = "verify"
                  /\ UNCHANGED <<supportChatDetected, failure, rec, otcStatus>>
  /\ UNCHANGED <<cfgVars, browser, page, stopping, lastFingerprint,
                 bridgeInstalled, lastMessengerUrl, stopPc, iter,
                 lastAttemptUrl, procVars, pageVars, bindFile, msgVars,
                 errCount, boundUrl, boundAt, clears, busVars, sideVars>>

\* openChatUrl after page.goto: the site shows the candidate or redirects to
\* the conversation list; a new document is loaded
OpenGoto ==
  /\ pc = "open_goto"
  /\ IF OwnPageOpen
     THEN \E land \in {cand, Root}, dom \in InitialDoms :
          /\ pgUrl' = land
          /\ pgNodes' = dom.nodes /\ pgLast' = dom.last
          /\ pgObserver' = FALSE /\ pgGrace' = FALSE
          /\ pgSeen' = <<>> /\ pgSkipped' = FALSE
          /\ lastMessengerUrl' = land
          /\ MaybePersist(land)
          /\ lastAttemptUrl' = cand
          /\ pc' = "verify"
          /\ UNCHANGED <<failure, rec>>
     ELSE /\ Throw("TargetClosed")
          /\ UNCHANGED <<pgUrl, pgNodes, pgLast, pgObserver, pgGrace, pgSeen, pgSkipped,
                         lastMessengerUrl, bindFile, ioFail, lastAttemptUrl>>
  /\ UNCHANGED <<cfgVars, browser, page, stopping, lastFingerprint,
                 bridgeInstalled, supportChatDetected, stopPc, iter, cand,
                 procVars, pgBridge, msgVars, errCount, boundUrl, boundAt,
                 otcStatus, clears, busVars, fnVars, dumpFail, tunVars, auxVars>>

\* the status event verifyNotSupportChat ends with, for the title read
titleStatus(title) ==
  IF title = "" THEN "no_title"
  ELSE IF title = "support" THEN "support"
  ELSE "title_ok"

\* verifyNotSupportChat after getChatTitle; on success openTargetChat returns
\* true and runLoop enters watchLoop, which runs to its first await
Verify ==
  /\ pc = "verify"
  /\ IF ~OwnPageOpen
     THEN /\ Throw("TargetClosed")
          /\ UNCHANGED <<supportChatDetected, otcStatus>>
     ELSE \E title \in Titles :
          /\ otcStatus' = titleStatus(title)
          /\ IF verifyNotSupportChat(title)
             THEN /\ pc' = IF supportChatDetected THEN "loop" ELSE "baseline"
                  /\ UNCHANGED <<supportChatDetected, failure, rec>>
             ELSE /\ supportChatDetected' = TRUE
                  /\ pc' = "otc_sleep"
                  /\ UNCHANGED <<failure, rec>>
  /\ UNCHANGED <<cfgVars, browser, page, stopping, lastFingerprint,
                 bridgeInstalled, lastMessengerUrl, stopPc, iter,
                 lastAttemptUrl, cand, procVars, pageVars, bindFile, msgVars,
                 errCount, boundUrl, boundAt, clears, busVars, sideVars>>

\* a faulty wait: the missing target is raised as an error
OtcSleepGivesUp ==
  /\ pc = "otc_sleep"
  /\ Throw("NoTarget")
  /\ UNCHANGED <<cfgVars, svcVars, stopPc, iter, lastAttemptUrl, cand, procVars,
                 pageVars, bindFile, msgVars, errCount, boundUrl, boundAt,
                 extVars>>

\* await sleep(3000); continue
OtcSleep ==
  /\ pc = "otc_sleep"
  /\ pc' = "otc_loop"
  /\ UNCHANGED <<cfgVars, svcVars, stopPc, iter, lastAttemptUrl, cand, procVars,
                 pageVars, bindFile, msgVars, recVars,
                 boundUrl, boundAt, extVars>>


(***************************************************************************)
(* watchLoop and installRealtimeObserver                                   *)
(***************************************************************************)

\* captureLastMessageAsBaseline after readLastMessage, then the first await of
\* installRealtimeObserver (exposeFunction, or page.evaluate when the bridge
\* flag is already set)
Baseline ==
  /\ pc = "baseline"
  /\ IF OwnPageOpen
     THEN LET msg == readLastMessage(pgNodes, pgLast)
              floor == captureLastMessageAsBaseline(msg, lastFingerprint)
          IN /\ lastFingerprint' = floor
             /\ floor0' = floor
             /\ baseMsg' = pgLast
             /\ fresh' = FALSE
             /\ sessMsgs' = <<>> /\ presented' = <<>>
             /\ pc' = IF bridgeInstalled THEN "install" ELSE "expose"
             /\ UNCHANGED <<failure, rec>>
     ELSE /\ Throw("TargetClosed")
          /\ UNCHANGED <<lastFingerprint, floor0, baseMsg, fresh, sessMsgs,
                         presented>>
  /\ UNCHANGED <<cfgVars, browser, page, stopping, bridgeInstalled,
                 lastMessengerUrl, supportChatDetected, stopPc, iter,
                 lastAttemptUrl, cand, procVars, pageVars, bindFile, lastMsg,
                 appended, errCount, boundUrl, boundAt, extVars>>

\* page.exposeFunction('__emitAvitoMessage', ...) settled; a rejection is
\* turned into installed = false by .catch(() => false)
Expose ==
  /\ pc = "expose"
  /\ IF OwnPageOpen
     THEN /\ pgBridge' = TRUE
          /\ bridgeInstalled' = TRUE
          /\ pc' = "install"
     ELSE /\ pc' = "poll"
          /\ UNCHANGED <<pgBridge, bridgeInstalled>>
  /\ UNCHANGED <<cfgVars, browser, page, stopping, lastFingerprint,
                 lastMessengerUrl, supportChatDetected, stopPc, iter,
                 lastAttemptUrl, cand, procVars, pgUrl, pgNodes, pgLast,
                 pgObserver, pgGrace, pgSeen, pgSkipped, bindFile, msgVars, recVars,
                 boundUrl, boundAt, extVars>>

\* a faulty installRealtimeObserver: it reports failure whatever the page did
installRealtimeObserverAlwaysFalse(ran, observer, nodes) == FALSE

\* the value installRealtimeObserver().catch(() => false) yields; `ran` says
\* that the in-page function ran to its end
installRealtimeObserver(ran, observer, nodes) ==
  ran /\ (observer \/ containerFound(nodes))

\* whether a MutationObserver is attached to the document after the call
observerAfterInstall(ran, observer, nodes) ==
  observer \/ (ran /\ containerFound(nodes))

\* the page.evaluate of installRealtimeObserver settled; watchLoop takes the
\* push branch or the polling branch.  The evaluation is rejected when the
\* page is closed and can be rejected when the document reloads under it
\* ("execution context was destroyed"); .catch(() => false) turns both into
\* installed = false
Install ==
  /\ pc = "install"
  /\ \E rejected \in BOOLEAN :
     LET ran == OwnPageOpen /\ ~rejected
         installed == installRealtimeObserver(ran, pgObserver, pgNodes)
         attached == observerAfterInstall(ran, pgObserver, pgNodes)
     IN /\ pgObserver' = attached
        /\ pgSeen' = IF attached /\ ~pgObserver THEN <<>> ELSE pgSeen
        /\ pgSkipped' = IF attached /\ ~pgObserver THEN FALSE ELSE pgSkipped
        /\ pgGrace' = IF attached /\ ~pgObserver THEN FALSE ELSE pgGrace
        /\ pc' = IF installed THEN "push" ELSE "poll"
  /\ UNCHANGED <<cfgVars, svcVars, stopPc, iter, lastAttemptUrl, cand, procVars,
                 pgUrl, pgNodes, pgLast, pgBridge, bindFile, msgVars, recVars,
                 boundUrl, boundAt, extVars>>

\* a faulty push branch: the loop only sleeps
PushWaitNoLoginCheck ==
  /\ pc = "push"
  /\ stopping
  /\ pc' = "loop"
  /\ UNCHANGED <<cfgVars, svcVars, stopPc, iter, lastAttemptUrl, cand, procVars,
                 pageVars, bindFile, msgVars, recVars,
                 boundUrl, boundAt, extVars>>

\* push branch: while (!this.stopping) { login check; await sleep(1000) }
PushWait ==
  /\ pc = "push"
  /\ IF stopping
     THEN /\ pc' = "loop"
          /\ UNCHANGED <<failure, rec>>
     ELSE IF includesLogin(pgUrl)
     THEN Throw("SessionExpired")
     ELSE UNCHANGED <<pc, failure, rec>>
  /\ UNCHANGED <<cfgVars, svcVars, stopPc, iter, lastAttemptUrl, cand, procVars,
                 pageVars, bindFile, msgVars, errCount,
                 boundUrl, boundAt, extVars>>

\* polling branch: the loop test, the login check and the call of
\* readLastMessage up to its page.evaluate
Poll ==
  /\ pc = "poll"
  /\ IF stopping
     THEN /\ pc' = "loop"
          /\ UNCHANGED <<failure, rec>>
     ELSE IF includesLogin(pgUrl)
     THEN Throw("SessionExpired")
     ELSE /\ Len(presented) < MaxPresented
          /\ IF page = 0
             THEN Throw("PageNotInitialized")
             ELSE /\ pc' = "poll_read"
                  /\ UNCHANGED <<failure, rec>>
  /\ UNCHANGED <<cfgVars, svcVars, stopPc, iter, lastAttemptUrl, cand, procVars,
                 pageVars, bindFile, msgVars, errCount,
                 boundUrl, boundAt, extVars>>

\* polling branch: readLastMessage settled, the fingerprint test, the emit and
\* the sleep of one poll interval
PollRead ==
  /\ pc = "poll_read"
  /\ IF ~OwnPageOpen
     THEN /\ Throw("TargetClosed")
          /\ UNCHANGED <<lastFingerprint, lastMsg, sessMsgs, presented>>
     ELSE LET msg == readLastMessage(pgNodes, pgLast)
              fp == Fingerprint(From, msg)
          IN /\ pc' = "poll"
             /\ UNCHANGED <<failure, rec>>
             /\ IF msg = ""
                THEN UNCHANGED <<lastFingerprint, lastMsg, sessMsgs,
                                 presented>>
                ELSE /\ presented' = Append(presented, msg)
                     /\ IF isNewFingerprint(fp, lastFingerprint)
                        THEN /\ lastFingerprint' = fp
                             /\ EmitMessage(msg)
                        ELSE UNCHANGED <<lastFingerprint, lastMsg,
                                         sessMsgs>>
  /\ UNCHANGED <<cfgVars, browser, page, stopping, bridgeInstalled,
                 lastMessengerUrl, supportChatDetected, stopPc, iter,
                 lastAttemptUrl, cand, procVars, pageVars, bindFile, floor0,
                 baseMsg, fresh, appended, errCount,
                 boundUrl, boundAt, extVars>>

(***************************************************************************)
(* the catch block of runLoop                                              *)
(***************************************************************************)

\* where runLoop is suspended for a safeClose that stopped at `at`
ClosePc(at) ==
  CASE at = "page" -> "close_page"
    [] at = "browser" -> "close_browser"
    [] OTHER -> "cooldown"

\* the recovery record once safeClose has returned
RecClosed(r, at) == IF at = "done" THEN Append(r, "close") ELSE r

\* where a call of dumpDebugArtifacts can fail: fs.mkdirSync throws,
\* page.screenshot rejects, page.content rejects, fs.writeFileSync throws
DumpFaults ==
  IF diskFault THEN {"none", "mkdir", "screenshot", "content", "write"}
  ELSE {"none", "screenshot", "content"}

\* the try block of dumpDebugArtifacts: no page, nothing to do; a rejected
\* screenshot is swallowed by its own catch; a rejected content yields ''
\* and skips the write; the warn status 'Debug saved' closes the block
dumpDebugArtifactsBody(pg, fault) ==
  IF pg = 0 THEN "nopage"
  ELSE IF fault \in {"mkdir", "write"} THEN "raised"
  ELSE "saved"

\* a faulty dumpDebugArtifacts: no catch around the body
dumpDebugArtifactsUncaught(pg, fault) == dumpDebugArtifactsBody(pg, fault)

\* dumpDebugArtifacts: try { body } catch {}
dumpDebugArtifacts(pg, fault) ==
  IF dumpDebugArtifactsBody(pg, fault) = "raised" THEN "failed"
  ELSE dumpDebugArtifactsBody(pg, fault)

\* the catch block of runLoop up to the first await of safeClose:
\* dumpDebugArtifacts('error'), the error status event with the message of
\* the exception caught (failure), the first task of safeClose.  An
\* exception that left dumpDebugArtifacts would leave the catch block and
\* reject the promise of runLoop before the status event.  The awaits of the dump (screenshot, content) work on the page
\* reference read at its entry and change nothing the model holds, so the
\* block is one step up to page.close()
Catch ==
  /\ pc = "catch"
  /\ \E fault \in DumpFaults :
     LET d == dumpDebugArtifacts(page, fault)
         r == SafeCloseStart(page, browser, openBrowsers, openPages)
     IN IF d = "raised"
        THEN /\ pc' = "rejected"
             /\ rec' = <<"dump">>
             /\ UNCHANGED <<errCount, page, browser, procVars, pageVars,
                            sessMsgs, presented, floor0, baseMsg, fresh,
                            otcStatus, dumpFail>>
        ELSE /\ dumpFail' = (d = "failed")
             /\ errCount' = errCount + 1
             /\ page' = r.page /\ browser' = r.browser
             /\ openBrowsers' = r.oB /\ openPages' = r.oP
             /\ pc' = ClosePc(r.at)
             /\ rec' = RecClosed(<<"dump", "error">>, r.at)
             /\ PageGone(page)
             /\ SessionOver
             /\ otcStatus' = ""
  /\ UNCHANGED <<cfgVars, stopping, lastFingerprint, bridgeInstalled,
                 lastMessengerUrl, supportChatDetected, stopPc, iter,
                 lastAttemptUrl, cand, bindFile, lastMsg, appended, failure,
                 boundUrl, boundAt, clears, busVars, fnVars, ioFail, tunVars, auxVars>>

\* safeClose after page.close(): this.page = undefined, then browser.close()
ClosePage ==
  /\ pc = "close_page"
  /\ LET r == SafeCloseBrowserPart(browser, openBrowsers, openPages) IN
     /\ page' = r.page /\ browser' = r.browser
     /\ openBrowsers' = r.oB /\ openPages' = r.oP
     /\ pc' = ClosePc(r.at)
     /\ rec' = RecClosed(rec, r.at)
  /\ UNCHANGED <<cfgVars, stopping, lastFingerprint, bridgeInstalled,
                 lastMessengerUrl, supportChatDetected, stopPc, iter,
                 lastAttemptUrl, cand, pageVars, bindFile, msgVars, errCount,
                 failure, boundUrl, boundAt, extVars>>

\* safeClose after browser.close(): this.browser = undefined; sleep(2500) starts
CloseBrowser ==
  /\ pc = "close_browser"
  /\ browser' = 0
  /\ pc' = "cooldown"
  /\ rec' = Append(rec, "close")
  /\ UNCHANGED <<cfgVars, page, stopping, lastFingerprint, bridgeInstalled,
                 lastMessengerUrl, supportChatDetected, stopPc, iter,
                 lastAttemptUrl, cand, procVars, pageVars, bindFile, msgVars,
                 errCount, failure, boundUrl, boundAt, extVars>>

\* await sleep(2500) is over
Cooldown ==
  /\ pc = "cooldown"
  /\ pc' = "loop"
  /\ rec' = Append(rec, "cooldown")
  /\ UNCHANGED <<cfgVars, svcVars, stopPc, iter, lastAttemptUrl, cand, procVars,
                 pageVars, bindFile, msgVars, errCount, failure,
                 boundUrl, boundAt, extVars>>

(***************************************************************************)
(* onModuleDestroy                                                         *)
(***************************************************************************)

StopPc(at) ==
  CASE at = "page" -> "sc_page"
    [] at = "browser" -> "sc_browser"
    [] OTHER -> "done"

\* this.stopping = true; the first task of safeClose
Stop ==
  /\ stopPc = "idle"
  /\ stopping' = TRUE
  /\ LET r == SafeCloseStart(page, browser, openBrowsers, openPages) IN
     /\ page' = r.page /\ browser' = r.browser
     /\ openBrowsers' = r.oB /\ openPages' = r.oP
     /\ stopPc' = StopPc(r.at)
  /\ PageGone(page)
  /\ UNCHANGED <<cfgVars, lastFingerprint, bridgeInstalled, lastMessengerUrl,
                 supportChatDetected, pc, iter, lastAttemptUrl, cand,
                 bindFile, msgVars, recVars, boundUrl, boundAt, extVars>>

\* safeClose after page.close()
StopClosePage ==
  /\ stopPc = "sc_page"
  /\ LET r == SafeCloseBrowserPart(browser, openBrowsers, openPages) IN
     /\ page' = r.page /\ browser' = r.browser
     /\ openBrowsers' = r.oB /\ openPages' = r.oP
     /\ stopPc' = StopPc(r.at)
  /\ UNCHANGED <<cfgVars, stopping, lastFingerprint, bridgeInstalled,
                 lastMessengerUrl, supportChatDetected, pc, iter,
                 lastAttemptUrl, cand, pageVars, bindFile, msgVars, recVars,
                 boundUrl, boundAt, extVars>>

\* safeClose after browser.close()
StopCloseBrowser ==
  /\ stopPc = "sc_browser"
  /\ browser' = 0
  /\ stopPc' = "done"
  /\ UNCHANGED <<cfgVars, page, stopping, lastFingerprint, bridgeInstalled,
                 lastMessengerUrl, supportChatDetected, pc, iter,
                 lastAttemptUrl, cand, procVars, pageVars, bindFile, msgVars,
                 recVars, boundUrl, boundAt, extVars>>


(***************************************************************************)
(* The page: new content, the in-page observer, the people using it.       *)
(***************************************************************************)

\* the seen set of handleNode holds at most SeenLimit texts; beyond that it
\* keeps the last SeenKeep
SeenLimit == 200
SeenKeep == 80

InSeq(x, sq) == \E i \in 1..Len(sq) : sq[i] = x

\* seen.add(msgText) and the trimming that follows it
seenAdd(seen, text) ==
  LET s2 == Append(seen, text) IN
  IF Len(s2) > SeenLimit
  THEN SubSeq(s2, Len(s2) - SeenKeep + 1, Len(s2))
  ELSE s2

\* handleNode passes the text on to window.__emitAvitoMessage
handleNodePasses(text, seen) == ~isUiNoise(text) /\ ~InSeq(text, seen)

\* a faulty handleNode: no test of the time since the observer was attached
handleNodeInspectsAtOnce(observer, grace) == observer

\* handleNode gets past if (Date.now() - startTs < graceMs) return
handleNodeInspects(observer, grace) == observer /\ grace

\* watchLoop is between its baseline read and its return
WatchPcs == {"baseline", "expose", "install", "push", "poll", "poll_read"}

\* A node is added to the conversation.  With an observer attached and the
\* grace period over, handleNode runs on it and, for a text it passes on, the
\* bridge callback of the host runs (a page without the binding raises a
\* TypeError in handleNode instead).
DomAppend(n) ==
  /\ pc \in WatchPcs
  /\ OwnPageOpen
  /\ ~includesLogin(pgUrl)
  /\ appended < MaxAppend
  /\ appended' = appended + 1
  /\ pgNodes' = IF pgNodes < ContainerThreshold THEN pgNodes + 1 ELSE pgNodes
  /\ pgLast' = IF isUiNoise(n) THEN pgLast ELSE n
  /\ fresh' = (fresh \/ (pc # "baseline" /\ ~isUiNoise(n)))
  /\ pgSkipped' = (pgSkipped \/ (pgObserver /\ ~isUiNoise(n)
                                  /\ ~handleNodeInspects(pgObserver, pgGrace)))
  /\ IF handleNodeInspects(pgObserver, pgGrace) /\ ~isUiNoise(n)
     THEN /\ presented' = Append(presented, n)
          /\ IF handleNodePasses(n, pgSeen)
             THEN /\ pgSeen' = seenAdd(pgSeen, n)
                  /\ IF pgBridge /\ isNewFingerprint(Fingerprint(From, n),
                                                     lastFingerprint)
                     THEN /\ lastFingerprint' = Fingerprint(From, n)
                          /\ EmitMessage(n)
                     ELSE UNCHANGED <<lastFingerprint, lastMsg, sessMsgs>>
             ELSE UNCHANGED <<pgSeen, lastFingerprint, lastMsg,
                              sessMsgs>>
     ELSE UNCHANGED <<presented, pgSeen, lastFingerprint, lastMsg,
                      sessMsgs>>
  /\ UNCHANGED <<cfgVars, browser, page, stopping, bridgeInstalled,
                 lastMessengerUrl, supportChatDetected, ctlVars, procVars,
                 pgUrl, pgObserver, pgGrace, pgBridge, bindFile, floor0,
                 baseMsg, recVars, boundUrl, boundAt, extVars>>

\* graceMs (1500 ms) have passed since the observer was attached
GraceElapse ==
  /\ pgObserver /\ ~pgGrace
  /\ OwnPageOpen
  /\ pgGrace' = TRUE
  /\ UNCHANGED <<cfgVars, svcVars, ctlVars, procVars, pgUrl, pgNodes, pgLast,
                 pgObserver, pgSeen, pgSkipped, pgBridge, bindFile, msgVars, recVars,
                 boundUrl, boundAt, extVars>>

\* the site redirects the watched page to the login view
SessionExpire ==
  /\ pc \in {"push", "poll", "poll_read"}
  /\ OwnPageOpen
  /\ ~includesLogin(pgUrl)
  /\ pgUrl' = LoginUrl
  /\ UNCHANGED <<cfgVars, svcVars, ctlVars, procVars, pgNodes, pgLast,
                 pgObserver, pgGrace, pgSeen, pgSkipped, pgBridge, bindFile,
                 msgVars, recVars, boundUrl, boundAt, extVars>>

\* a person completes the login in the visible browser
HumanLogin ==
  /\ pc = "manual_login"
  /\ OwnPageOpen
  /\ includesLogin(pgUrl)
  /\ pgUrl' = Root
  /\ UNCHANGED <<cfgVars, svcVars, ctlVars, procVars, pgNodes, pgLast,
                 pgObserver, pgGrace, pgSeen, pgSkipped, pgBridge, bindFile,
                 msgVars, recVars, boundUrl, boundAt, extVars>>

\* a person opens a conversation (or the list) in the visible browser while
\* the supervisor waits for a binding; the framenavigated handler adopts the
\* page through maybeAdoptMessengerPage
HumanNavigate(u) ==
  /\ pc \in {"otc_loop", "otc_sleep"}
  /\ ~headless
  /\ OwnPageOpen
  /\ pgUrl # u
  /\ pgUrl' = u
  /\ IF isMessengerChannelUrl(u) \/ isMessengerUrl(u)
     THEN /\ page' = iter
          /\ lastMessengerUrl' = u
     ELSE UNCHANGED <<page, lastMessengerUrl>>
  /\ UNCHANGED <<cfgVars, browser, stopping, lastFingerprint, bridgeInstalled,
                 supportChatDetected, ctlVars, procVars, pgNodes, pgLast,
                 pgObserver, pgGrace, pgSeen, pgSkipped, pgBridge, bindFile,
                 msgVars, recVars, boundUrl, boundAt, extVars>>

(***************************************************************************)
(* BindController                                                          *)
(***************************************************************************)

\* getCurrentUrl(): Empty stands for null
getCurrentUrl ==
  LET url == IF page # 0 THEN pgUrl ELSE Empty IN
  IF url # Empty /\ isMessengerUrl(url) THEN url
  ELSE IF lastMessengerUrl # Empty /\ isMessengerUrl(lastMessengerUrl)
       THEN lastMessengerUrl
       ELSE Empty

\* the tab browser.pages() lists for this.browser: its URL, Empty when the
\* browser is gone or has no page yet
tabUrl ==
  IF browser # 0 /\ browser \in openBrowsers /\ browser \in openPages
  THEN pgUrl ELSE Empty

\* getMessengerTabUrl(): Empty stands for null
getMessengerTabUrl ==
  IF tabUrl # Empty /\ isMessengerUrl(tabUrl) THEN tabUrl ELSE Empty

\* bindCurrent of src/unnamed/part_003 accepts the normalized candidate
bindAccepts(u) == u # Empty /\ classifyUrl(normalizeUrl(u)) = "channel"

\* the kind in the reply of bindCurrent for the candidate it ends up with
bindCurrentKind(candidateUrl) ==
  IF candidateUrl = Empty THEN "other"
  ELSE classifyUrl(normalizeUrl(candidateUrl))

\* POST /bind/current, the handler of src/unnamed/part_003.  Its
\* fs.writeFileSync stands in no try block: a write that throws leaves the
\* handler as an exception, after the tab switch and before the info status
BindCurrent ==
  /\ LET initialUrl == getCurrentUrl
         useTab == ~isChannelUrl(initialUrl) /\ getMessengerTabUrl # Empty
         candidateUrl == IF useTab THEN getMessengerTabUrl ELSE initialUrl
     IN /\ IF ~isChannelUrl(initialUrl) /\ getMessengerTabUrl # Empty
           THEN /\ page' = browser
                /\ lastMessengerUrl' = getMessengerTabUrl
           ELSE UNCHANGED <<page, lastMessengerUrl>>
        /\ \E writeThrows \in WriteFaults :
           /\ writeThrows => bindAccepts(candidateUrl)
           /\ IF writeThrows
              THEN /\ ioFail' = "raised"
                   /\ bindFile' \in leftByFailedWrite(bindFile)
                   /\ UNCHANGED <<boundUrl, boundAt>>
              ELSE /\ IF bindAccepts(candidateUrl)
                      THEN /\ bindFile' = normalizeUrl(candidateUrl)
                           /\ boundUrl' = normalizeUrl(candidateUrl)
                           /\ boundAt' = iter
                      ELSE UNCHANGED <<bindFile, boundUrl, boundAt>>
                   /\ UNCHANGED ioFail
  /\ UNCHANGED <<cfgVars, browser, stopping, lastFingerprint, bridgeInstalled,
                 supportChatDetected, ctlVars, procVars, pageVars, msgVars,
                 recVars, otcStatus, clears, busVars, fnVars, dumpFail, tunVars, auxVars>>

\* POST /bind/clear: the file is removed if it exists; when fs.unlinkSync
\* throws, the catch emits an error status; the reply is { ok: true } in
\* every case
Clear ==
  /\ clears < MaxClears
  /\ clears' = clears + 1
  /\ \E unlinkThrows \in BOOLEAN :
     /\ unlinkThrows => bindFile # NoFile
     /\ IF unlinkThrows
        THEN UNCHANGED <<bindFile, boundUrl, boundAt>>
        ELSE /\ bindFile' = NoFile
             /\ boundUrl' = Empty /\ boundAt' = 0
  /\ UNCHANGED <<cfgVars, svcVars, ctlVars, procVars, pageVars, msgVars,
                 recVars, otcStatus, busVars, sideVars>>

\* what another program or the operator can leave at the path of the file
FileKinds == {Malformed, Unreadable, Empty, Root, ChanB}

\* the binding file is replaced from outside the process
Tamper(c) ==
  /\ bindFile # c
  /\ bindFile' = c
  /\ boundUrl' = Empty /\ boundAt' = 0
  /\ UNCHANGED <<cfgVars, svcVars, ctlVars, procVars, pageVars, msgVars,
                 recVars, extVars>>

(***************************************************************************)
(* The classifier on its own: a location is drawn, normalizeUrl and        *)
(* classifyUrl are applied to it as status and bindCurrent apply them, and *)
(* bindCurrent answers for it as its candidate.                            *)
(***************************************************************************)
Locations ==
  {Empty} \cup
  { Url(h, s, c, q) : h \in {"avito", "rel", "ext"},
                      s \in {"pm", "m", "login", "other"},
                      c \in {"", "a"}, q \in {"", "q", "x"} }

\* classifyUrl(normalizeUrl(url)) of status and bindCurrent
Classify ==
  /\ clsKind = ""
  /\ clsKind' = classifyUrl(normalizeUrl(clsIn))
  /\ UNCHANGED <<cfgVars, svcVars, ctlVars, procVars, pageVars, bindFile,
                 msgVars, recVars, boundUrl, boundAt, otcStatus, clears,
                 busVars, clsIn, bindKind, dbgVars, tunVars, auxVars>>

\* the reply of bindCurrent when its candidate is the location drawn
BindReply ==
  /\ bindKind = ""
  /\ bindKind' = bindCurrentKind(clsIn)
  /\ UNCHANGED <<cfgVars, svcVars, ctlVars, procVars, pageVars, bindFile,
                 msgVars, recVars, boundUrl, boundAt, otcStatus, clears,
                 busVars, clsIn, clsKind, dbgVars, tunVars, auxVars>>

Classifier == Classify \/ BindReply

(***************************************************************************)
(* EventBus and WsGateway.  An event is named by the number of the emit    *)
(* call that carried it: the gateway passes the payload through            *)
(* JSON.stringify and never looks at it.                                   *)
(***************************************************************************)
HISTORY_LIMIT == 50

\* a faulty buffer: the newest event is put in front
historyUnshift(h, evt) ==
  IF Len(h) + 1 > HISTORY_LIMIT THEN <<evt>> \o SubSeq(h, 1, Len(h) - 1)
  ELSE <<evt>> \o h

\* a faulty buffer: nothing is ever dropped
historyPushNoShift(h, evt) == Append(h, evt)

\* this.history.push(evt); if (length > HISTORY_LIMIT) this.history.shift()
historyPush(h, evt) ==
  IF Len(h) + 1 > HISTORY_LIMIT THEN Tail(Append(h, evt)) ELSE Append(h, evt)

\* EventBus.emit: subject.next runs the gateway's subscriber, the only one,
\* to its end: the history is updated and broadcast sends the event to every
\* socket of server.clients whose readyState is OPEN
Emit ==
  /\ emitted < MaxEmit
  /\ emitted' = emitted + 1
  /\ history' = historyPush(history, emitted + 1)
  /\ recv' = [c \in Sockets |->
               IF c \in clients THEN Append(recv[c], emitted + 1)
               ELSE recv[c]]
  /\ UNCHANGED <<cfgVars, svcVars, ctlVars, procVars, pageVars, bindFile,
                 msgVars, recVars, boundUrl, boundAt, otcStatus, clears, sideVars,
                 clients, attachAt, replayed>>

\* a socket completes its upgrade: the server adds it to server.clients and
\* handleConnection sends it the greeting and then the history, first to last
handleConnection(c) ==
  /\ c \notin clients
  /\ clients' = clients \cup {c}
  /\ recv' = [recv EXCEPT ![c] = history]
  /\ attachAt' = [attachAt EXCEPT ![c] = emitted]
  /\ replayed' = [replayed EXCEPT ![c] = Len(history)]
  /\ UNCHANGED <<cfgVars, svcVars, ctlVars, procVars, pageVars, bindFile,
                 msgVars, recVars, boundUrl, boundAt, otcStatus, clears, sideVars,
                 history, emitted>>

\* a socket leaves the OPEN state; broadcast skips it from then on and the
\* next connection is a new socket
SocketClose(c) ==
  /\ c \in clients
  /\ clients' = clients \ {c}
  /\ recv' = [recv EXCEPT ![c] = <<>>]
  /\ attachAt' = [attachAt EXCEPT ![c] = 0]
  /\ replayed' = [replayed EXCEPT ![c] = 0]
  /\ UNCHANGED <<cfgVars, svcVars, ctlVars, procVars, pageVars, bindFile,
                 msgVars, recVars, boundUrl, boundAt, otcStatus, clears, sideVars,
                 history, emitted>>

Gateway ==
  \/ Emit
  \/ \E c \in Sockets : handleConnection(c)
  \/ \E c \in Sockets : SocketClose(c)

(***************************************************************************)
(* The specification                                                       *)
(***************************************************************************)
(***************************************************************************)
(* TunnelService: the health monitor.  A check is one fetch; the timer     *)
(* starts a check whether or not the one before has settled, and checks    *)
(* settle in any order.                                                    *)
(***************************************************************************)

\* how many health checks a behaviour starts
MaxChecks == 4

\* TUNNEL_HEALTH_URL, trimmed: not set, set
HealthUrls == {"", "health"}

\* how a fetch settles: a response with a status, or a rejection (the abort
\* of the timeout, a refused connection)
FetchResults ==
  {[kind |-> "response", text |-> t] : t \in {"200", "204", "503"}}
    \cup {[kind |-> "rejected", text |-> t] : t \in {"aborted", "refused"}}

\* response.ok: the status is in 200..299
responseOk(res) == res.kind = "response" /\ res.text \in {"200", "204"}

\* checkHealth: the detail it hands to emitHealthStatus
healthDetail(res) ==
  IF res.kind = "response" THEN "status " \o res.text
  ELSE "request failed: " \o res.text

\* emitHealthStatus: `${ok ? 'ok' : 'fail'}: ${detail}`
healthSummary(ok, detail) == (IF ok THEN "ok" ELSE "fail") \o ": " \o detail

\* a faulty emitHealthStatus: no comparison with the last summary
healthChangedAlways(summary, last) == TRUE

\* emitHealthStatus: if (summary === this.lastHealthSummary) return
healthChanged(summary, last) == summary # last

\* emitHealthStatus
emitHealthStatus(ok, detail) ==
  LET summary == healthSummary(ok, detail) IN
  /\ lastChecked' = summary
  /\ IF healthChanged(summary, lastHealthSummary)
     THEN /\ lastHealthSummary' = summary
          /\ healthLog' = Append(healthLog, summary)
     ELSE UNCHANGED <<lastHealthSummary, healthLog>>

tunRest == <<cfgVars, svcVars, ctlVars, procVars, pageVars, bindFile,
             msgVars, recVars, boundUrl, boundAt, otcStatus, clears, busVars,
             fnVars, dbgVars, auxVars>>

\* onModuleInit: startHealthCheck returns at once without a health URL;
\* with one it starts the first check and the interval timer
StartHealthCheck ==
  /\ tunnelPc = "constructed"
  /\ tunnelPc' = "initialized"
  /\ \E healthUrl \in HealthUrls :
     IF healthUrl = ""
     THEN UNCHANGED <<healthTimer, healthChecks, healthInflight>>
     ELSE /\ healthTimer' = TRUE
          /\ healthChecks' = 1
          /\ healthInflight' = 1
  /\ UNCHANGED <<lastHealthSummary, lastChecked, healthLog, tunRest>>

\* the interval timer fires: runCheck starts another fetch
HealthTick ==
  /\ healthTimer
  /\ healthChecks < MaxChecks
  /\ healthChecks' = healthChecks + 1
  /\ healthInflight' = healthInflight + 1
  /\ UNCHANGED <<tunnelPc, healthTimer, lastHealthSummary, lastChecked,
                 healthLog, tunRest>>

\* checkHealth after its await: the fetch of one check in flight settles
CheckSettle ==
  /\ healthInflight > 0
  /\ healthInflight' = healthInflight - 1
  /\ \E res \in FetchResults :
       emitHealthStatus(responseOk(res), healthDetail(res))
  /\ UNCHANGED <<tunnelPc, healthTimer, healthChecks, tunRest>>

\* onModuleDestroy of TunnelService: clearInterval; a fetch in flight is
\* left to settle
TunnelDestroy ==
  /\ tunnelPc = "initialized"
  /\ tunnelPc' = "destroyed"
  /\ healthTimer' = FALSE
  /\ UNCHANGED <<lastHealthSummary, healthChecks, healthInflight,
                 lastChecked, healthLog, tunRest>>

Tunnel == StartHealthCheck \/ HealthTick \/ CheckSettle \/ TunnelDestroy

(***************************************************************************)
(* CloudpubService: the child process of the tunnel and its stop.          *)
(***************************************************************************)

\* stdout and stderr chunks of the child the model follows
MaxChunks == 2

\* how onModuleInit can go: NODE_ENV is test, CLOUDPUB_ENABLED is not true,
\* spawn throws, or spawn returns a child
CpStarts == {"test", "disabled", "throws", "spawned"}

\* a child that ends on SIGTERM, and one that ignores it
ChildKinds == {"running", "stubborn"}

\* the child has not exited
ChildAlive == cpChild \in ChildKinds

\* proc.kill(sig): the signal reaches a child that has not exited; for one
\* that has, kill returns false and nothing happens
kill(child, sent, sig) == IF child \in ChildKinds THEN sig ELSE sent

cpRest == <<cfgVars, svcVars, ctlVars, procVars, pageVars, bindFile,
            msgVars, recVars, boundUrl, boundAt, otcStatus, clears, busVars,
            fnVars, dbgVars, tunVars, tabVars>>

\* onModuleInit
CloudpubInit ==
  /\ cpPc = "constructed"
  /\ cpPc' = "initialized"
  /\ \E how \in CpStarts :
     IF how \in {"test", "disabled"}
     THEN /\ cpLog' = Append(cpLog, how)
          /\ UNCHANGED <<cpProc, cpChild>>
     ELSE IF how = "throws"
     THEN /\ cpLog' = cpLog \o <<"starting", "spawn_failed">>
          /\ UNCHANGED <<cpProc, cpChild>>
     ELSE /\ cpLog' = Append(cpLog, "starting")
          /\ cpProc' = TRUE
          /\ cpChild' \in ChildKinds
  /\ UNCHANGED <<cpStopping, cpSignal, cpTimer, cpOnce, cpChunks, cpRest>>

\* proc.stdout.on('data') and proc.stderr.on('data'): a status event unless
\* the trimmed text is empty
ChildOutput ==
  /\ cpChild \in ChildKinds \cup {"exited"}
  /\ cpChunks < MaxChunks
  /\ cpChunks' = cpChunks + 1
  /\ \E stream \in {"stdout", "stderr"}, blank \in BOOLEAN :
     cpLog' = IF blank THEN cpLog ELSE Append(cpLog, stream)
  /\ UNCHANGED <<cpPc, cpProc, cpStopping, cpChild, cpSignal, cpTimer, cpOnce,
                 cpRest>>

\* the child exits by itself: it has crashed, or the tunnel was ended from
\* the other side
ChildExit ==
  /\ ChildAlive
  /\ cpChild' = "exited"
  /\ UNCHANGED <<cpPc, cpProc, cpStopping, cpSignal, cpTimer, cpOnce, cpLog,
                 cpChunks, cpRest>>

\* the child ends because of the signal it was sent: SIGTERM unless it
\* ignores it, SIGKILL in every case
ChildKilled ==
  /\ \/ cpChild = "running" /\ cpSignal # ""
     \/ cpChild = "stubborn" /\ cpSignal = "SIGKILL"
  /\ cpChild' = "exited"
  /\ UNCHANGED <<cpPc, cpProc, cpStopping, cpSignal, cpTimer, cpOnce, cpLog,
                 cpChunks, cpRest>>

\* 'close' is emitted, once, after the exit and the end of the stdio
\* streams: the handler of onModuleInit, then the listener of stopTunnel if
\* it is registered (clearTimeout; resolve)
ChildClose ==
  /\ cpChild = "exited"
  /\ cpChild' = "closed"
  /\ cpLog' = IF cpStopping THEN cpLog ELSE Append(cpLog, "exited")
  /\ IF cpOnce
     THEN /\ cpOnce' = FALSE /\ cpTimer' = FALSE
          /\ cpPc' = "stopped"
     ELSE UNCHANGED <<cpOnce, cpTimer, cpPc>>
  /\ UNCHANGED <<cpProc, cpStopping, cpSignal, cpChunks, cpRest>>

\* onModuleDestroy, with stopTunnel up to the promise it returns
CloudpubDestroy ==
  /\ cpPc = "initialized"
  /\ cpStopping' = TRUE
  /\ IF ~cpProc
     THEN /\ cpPc' = "stopped"
          /\ UNCHANGED <<cpProc, cpLog, cpTimer, cpOnce, cpSignal>>
     ELSE /\ cpPc' = "stopping"
          /\ cpProc' = FALSE
          /\ cpLog' = Append(cpLog, "stopping")
          /\ cpTimer' = TRUE
          /\ cpOnce' = TRUE
          /\ cpSignal' = kill(cpChild, cpSignal, "SIGTERM")
  /\ UNCHANGED <<cpChild, cpChunks, cpRest>>

\* the 5 s timer of stopTunnel fires: proc.kill('SIGKILL')
KillTimeout ==
  /\ cpTimer
  /\ cpTimer' = FALSE
  /\ cpSignal' = kill(cpChild, cpSignal, "SIGKILL")
  /\ UNCHANGED <<cpPc, cpProc, cpStopping, cpChild, cpOnce, cpLog, cpChunks,
                 cpRest>>

Cloudpub ==
  \/ CloudpubInit \/ ChildOutput \/ ChildExit \/ ChildKilled \/ ChildClose
  \/ CloudpubDestroy \/ KillTimeout

(***************************************************************************)
(* installPopupHandlers, maybeAdoptMessengerPage and setActivePage, on a   *)
(* browser with the page of startBrowser and one window opened from it.    *)
(***************************************************************************)

\* how many page events a behaviour of the tabs holds
MaxTabEvents == 3

\* a conversation path on a foreign origin
ForeignChan == Url("ext", "pm", "a", "")

\* where a tab can be: about:blank or a foreign page, the login view, the
\* messenger root, a conversation, a conversation path on a foreign origin
TabLocs == {Blank, LoginUrl, Root, ChanA, ForeignChan}

\* maybeAdoptMessengerPage: the test before setActivePage
adopts(u) == isMessengerChannelUrl(u) \/ isMessengerUrl(u)

\* setActivePage: this.page = page and the status 'Switched active page'
setActivePage(t, u) ==
  /\ activeTab' = t
  /\ switchLog' = Append(switchLog, [tab |-> t, url |-> u])

\* maybeAdoptMessengerPage(page, reason), page.url() being u; other is the
\* value of this.page when the page is not adopted
maybeAdoptMessengerPage(t, u, other) ==
  IF adopts(u) THEN setActivePage(t, u)
  ELSE activeTab' = other /\ UNCHANGED switchLog

tabRest == <<cfgVars, svcVars, ctlVars, procVars, pageVars, bindFile,
             msgVars, recVars, boundUrl, boundAt, otcStatus, clears, busVars,
             fnVars, dbgVars, tunVars, cpVars>>

\* startBrowser: this.page = await this.browser.newPage(), handlers installed
TabsStart ==
  /\ activeTab = "none"
  /\ activeTab' = "main"
  /\ tabLoc' = [tabLoc EXCEPT !["main"] = Blank]
  /\ UNCHANGED <<switchLog, tabEvents, tabRest>>

\* page.on('popup'): this.page = popup, handlers installed on the popup, then
\* maybeAdoptMessengerPage(popup, 'popup')
OnPopup ==
  /\ activeTab # "none"
  /\ tabLoc["popup"] = NoTab
  /\ tabEvents < MaxTabEvents
  /\ tabEvents' = tabEvents + 1
  /\ \E u \in TabLocs :
       /\ tabLoc' = [tabLoc EXCEPT !["popup"] = u]
       /\ maybeAdoptMessengerPage("popup", u, "popup")
  /\ UNCHANGED tabRest

\* page.on('framenavigated') of the main frame of a tab that has handlers
OnFrameNavigated ==
  /\ tabEvents < MaxTabEvents
  /\ tabEvents' = tabEvents + 1
  /\ \E t \in Tabs, u \in TabLocs :
       /\ tabLoc[t] # NoTab
       /\ tabLoc' = [tabLoc EXCEPT ![t] = u]
       /\ maybeAdoptMessengerPage(t, u, activeTab)
  /\ UNCHANGED tabRest

\* browser.on('targetcreated') for the window opened: handlers installed,
\* then maybeAdoptMessengerPage(createdPage, 'targetcreated')
OnTargetCreated ==
  /\ tabLoc["popup"] # NoTab
  /\ tabEvents < MaxTabEvents
  /\ tabEvents' = tabEvents + 1
  /\ maybeAdoptMessengerPage("popup", tabLoc["popup"], activeTab)
  /\ UNCHANGED <<tabLoc, tabRest>>

TabHandlers == TabsStart \/ OnPopup \/ OnFrameNavigated \/ OnTargetCreated

RunLoop ==
  \/ LoopHead \/ LaunchOk \/ LaunchFail \/ NewPage
  \/ AuthOpened \/ AuthLogin \/ AuthNotFound \/ ManualLogin
  \/ OtcEnter \/ OtcLoop \/ OpenGoto \/ Verify \/ OtcSleep
  \/ Baseline \/ Expose \/ Install \/ PushWait \/ Poll \/ PollRead
  \/ Catch \/ ClosePage \/ CloseBrowser \/ Cooldown

OnModuleDestroy == Stop \/ StopClosePage \/ StopCloseBrowser

Environment ==
  \/ \E n \in Nodes : DomAppend(n)
  \/ GraceElapse \/ SessionExpire \/ HumanLogin
  \/ \E u \in {ChanA, ChanB, Root, Search} : HumanNavigate(u)

Requests == BindCurrent \/ Clear

Next ==
  \/ RunLoop \/ OnModuleDestroy \/ Environment \/ Requests
  \/ \E c \in FileKinds : Tamper(c)
  \/ Gateway \/ Classifier \/ Tunnel \/ TabHandlers \/ Cloudpub

Spec == Init /\ [][Next]_vars

\* the detector: the supervisor, the page it watches and the stop signal,
\* with the binding file as the process found it
NextDetect ==
  \/ RunLoop \/ OnModuleDestroy
  \/ \E n \in Nodes : DomAppend(n)
  \/ GraceElapse \/ SessionExpire \/ HumanLogin

\* a visible browser, no auto-bind, a conversation bound by an earlier run
InitDetect ==
  /\ Init /\ ~autoBind /\ ~headless /\ direct = Empty /\ bindFile = ChanA
  /\ ~diskFault

DetectSpec == InitDetect /\ [][NextDetect]_vars

\* the observer: the supervisor and the page it watches, never stopped
NextObserve ==
  \/ RunLoop
  \/ \E n \in Nodes : DomAppend(n)
  \/ GraceElapse

ObserveSpec == InitDetect /\ [][NextObserve]_vars

\* the binding: the supervisor, the bind requests and the person at the browser
NextBind ==
  \/ RunLoop \/ OnModuleDestroy \/ Requests
  \/ SessionExpire \/ HumanLogin
  \/ \E u \in {ChanA, ChanB, Root, Search} : HumanNavigate(u)

\* a browser with a window: the person can log in and choose a conversation
InitBind == Init /\ ~headless /\ ~diskFault

BindSpec == InitBind /\ [][NextBind]_vars

\* the binding store: the supervisor, the bind requests and the file system
NextStore ==
  \/ RunLoop \/ OnModuleDestroy \/ Requests
  \/ \E c \in FileKinds : Tamper(c)

InitStore == Init /\ ~autoBind /\ ~headless /\ ~diskFault

StoreSpec == InitStore /\ [][NextStore]_vars


\* the event sink: the emits, and the sockets that come and go
InitBus ==
  /\ Init /\ ~autoBind /\ ~headless /\ direct = Empty /\ bindFile = NoFile
  /\ ~diskFault

BusSpec == InitBus /\ [][Gateway]_vars

\* the classifier applied to every location of Locations
InitClassify ==
  /\ InitCore /\ ~autoBind /\ ~headless /\ direct = Empty /\ bindFile = NoFile
  /\ ~diskFault
  /\ clsIn \in Locations

ClassifySpec == InitClassify /\ [][Classifier]_vars

\* the life cycle: the supervisor, the stop signal and the site's redirects
NextLife == RunLoop \/ OnModuleDestroy \/ SessionExpire \/ HumanLogin

\* no override: the target comes from the binding file
InitLife == Init /\ direct = Empty /\ ~diskFault

LifeSpec == InitLife /\ [][NextLife]_vars

\* the writers of the binding file, the auto-bind of the supervisor and the
\* bind request, on a file system that can refuse a write
NextFault == NextLife \/ BindCurrent

InitFault ==
  /\ Init /\ autoBind /\ ~headless /\ direct = Empty /\ bindFile = ChanA
  /\ diskFault

FaultSpec == InitFault /\ [][NextFault]_vars

\* the health monitor of the tunnel alone
InitTunnel ==
  /\ Init /\ ~autoBind /\ ~headless /\ direct = Empty /\ bindFile = NoFile
  /\ ~diskFault

TunnelSpec == InitTunnel /\ [][Tunnel]_vars

\* the page handlers alone
InitTabs ==
  /\ Init /\ ~autoBind /\ ~headless /\ direct = Empty /\ bindFile = NoFile
  /\ ~diskFault

TabSpec == InitTabs /\ [][TabHandlers]_vars

\* the target resolution: the supervisor, the person at the browser who
\* opens a conversation, and the bind request; auto-bind is off
\* (runLoop up to the return of openTargetChat, and its catch)
ResolveLoop ==
  \/ LoopHead \/ LaunchOk \/ LaunchFail \/ NewPage \/ AuthOpened
  \/ OtcEnter \/ OtcLoop \/ OpenGoto \/ Verify \/ OtcSleep
  \/ Catch \/ ClosePage \/ CloseBrowser \/ Cooldown

NextResolve ==
  \/ ResolveLoop \/ OnModuleDestroy \/ BindCurrent
  \/ \E u \in {ChanA, ChanB} : HumanNavigate(u)

\* no binding yet; TARGET_CHAT_URL is not set or names a conversation
InitResolve ==
  /\ Init /\ ~autoBind /\ ~headless /\ ~diskFault
  /\ bindFile = NoFile /\ direct \in {Empty, ChanB}

ResolveSpec == InitResolve /\ [][NextResolve]_vars

\* the tunnel process alone
InitCloudpub ==
  /\ Init /\ ~autoBind /\ ~headless /\ direct = Empty /\ bindFile = NoFile
  /\ ~diskFault

CloudpubSpec == InitCloudpub /\ [][Cloudpub]_vars

\* the timer fires, a child that was sent a signal it does not ignore ends,
\* and the stdio streams of a child that has exited end
FairCloudpubSpec ==
  /\ CloudpubSpec
  /\ WF_vars(KillTimeout) /\ WF_vars(ChildKilled) /\ WF_vars(ChildClose)

\* the awaits of onModuleDestroy, without the call itself
StopAwaits == StopClosePage \/ StopCloseBrowser

\* every await of runLoop and of onModuleDestroy settles; whether the stop
\* signal is ever given is left open
FairLifeSpec == LifeSpec /\ WF_vars(RunLoop) /\ WF_vars(StopAwaits)

\* the same scheduling on the file system that can refuse a write
FairFaultSpec == FaultSpec /\ WF_vars(RunLoop) /\ WF_vars(StopAwaits)

\* the same scheduling while conversations are opened and bound by hand
FairResolveSpec ==
  ResolveSpec /\ WF_vars(ResolveLoop) /\ WF_vars(StopAwaits)


(***************************************************************************)
(* Properties                                                              *)
(***************************************************************************)

RecoverySteps == <<"dump", "error", "close", "cooldown", "start">>

IsPrefix(a, b) == Len(a) <= Len(b) /\ SubSeq(b, 1, Len(a)) = a

NoAdjacentRepeat(sq) == \A i \in 1..(Len(sq) - 1) : sq[i] # sq[i + 1]

\* C1: when the candidates presented to the detector after baseline are
\* a, a, b, a (a # b, neither the baseline), the events emitted in the watch
\* session are exactly a, b, a, in push mode as in polling mode.
C1_DedupSequence ==
  \A a, b \in NewTexts :
    (a # b /\ presented = <<a, a, b, a>>
       /\ floor0 \notin {Fingerprint(From, a), Fingerprint(From, b)})
    => sessMsgs = <<a, b, a>>

\* C2 as stated: over the whole life of the watcher, restarts and new
\* baselines included, no message event is published with the fingerprint of
\* the message event published before it.
C2_NeverConsecutiveRepeat ==
  [][(Len(sessMsgs') = Len(sessMsgs) + 1) => lastMsg' # lastMsg]_vars

\* C2 as amended: within one watch session no two consecutive message events
\* have the same fingerprint.
C2_NoRepeatWithinSession == NoAdjacentRepeat(sessMsgs)

\* a session that has published a, b and a again
C2_Witness == sessMsgs = <<"A", "B", "A">> /\ pc = "poll"

\* C3: when a message existed at the start of the watch session and no
\* message has appeared since the baseline capture, the session has emitted
\* no message event.
C3_BaselineNotEmitted == (baseMsg # "" /\ ~fresh) => sessMsgs = <<>>

C5_BindingIsChannel == bindFile # NoFile => classifyUrl(bindFile) = "channel"

\* C6: after a session-expired error the supervisor attempts the dump, emits
\* one error status event, closes the session, waits the cooldown and starts a
\* new session, in this order; and unless the stop signal is given it does get
\* to the new start.
C6_RecoveryInv ==
  failure = "SessionExpired" =>
    /\ IsPrefix(rec, RecoverySteps)
    /\ pc = "catch" => (rec = <<>> /\ errCount = 0)
    /\ pc \in {"close_page", "close_browser"} => Len(rec) = 2
    /\ pc = "cooldown" =>
         (Len(rec) = 3 /\ page = 0 /\ browser = 0
            /\ iter \notin openBrowsers /\ iter \notin openPages)
    /\ pc = "loop" => Len(rec) = 4
    /\ pc = "launch" => (rec = RecoverySteps /\ iter \notin openBrowsers)
    /\ Len(rec) >= 2 => errCount = 1

C6_Recovery ==
  /\ []C6_RecoveryInv
  /\ (failure = "SessionExpired" /\ pc = "catch")
       ~> (stopping \/ iter = MaxIter
             \/ (pc = "launch" /\ rec = RecoverySteps /\ errCount = 1))

\* the new session is being started after a session-expired error
C6_Witness ==
  failure = "SessionExpired" /\ pc = "launch" /\ rec = RecoverySteps /\ ~stopping

\* C7: at most one browser launched by the supervisor is open at any moment,
\* and startBrowser is entered only when no earlier browser is open.
C7_OneSession ==
  /\ Cardinality(openBrowsers) <= 1
  /\ pc = "launch" => openBrowsers = {}

\* C8: once the loop has ended and onModuleDestroy has returned, no browser
\* and no page opened by the supervisor is open.
C8_NothingOpenAfterStop ==
  (pc = "done" /\ stopPc = "done") => (openBrowsers = {} /\ openPages = {})

\* C9: after the stop signal runLoop begins no further iteration, and it
\* returns.
C9_StopEndsLoop ==
  /\ [][stopping => iter' = iter]_vars
  /\ stopping ~> (pc = "done")

\* the loop has returned after a stop given during the recovery of the last
\* iteration
C9_Witness ==
  stopping /\ pc = "done" /\ iter = MaxIter /\ failure = "SessionExpired"

\* C10: with no override, the first resolve of a supervisor cycle that began
\* after a successful bind request (no later bind or clear request) yields
\* the location that was bound.
C10_ResolveYieldsBound ==
  [][(pc = "otc_loop" /\ pc' # "otc_loop" /\ ~stopping /\ direct = Empty
        /\ lastAttemptUrl = Empty /\ boundUrl # Empty /\ boundAt < iter)
       => (pc' = "open_goto" /\ cand' = boundUrl)]_vars

C12_NoTargetStep ==
  (pc \in {"otc_loop", "otc_sleep"} /\ pc' # pc /\ ~stopping
     /\ direct = Empty /\ readBoundChatUrl(bindFile) = Empty)
  => /\ pc' = IF pc = "otc_loop" THEN "otc_sleep" ELSE "otc_loop"
     /\ pc = "otc_loop" => otcStatus' \in {"not_bound", "support_wait"}
     /\ UNCHANGED <<errCount, failure, iter, openBrowsers, openPages,
                    browser, page>>

C12_WaitsForTarget ==
  /\ [][C12_NoTargetStep]_vars
  /\ (pc = "otc_sleep") ~> (pc = "otc_loop")

\* the supervisor waits, unbound, with its session open
C12_Witness ==
  /\ pc = "otc_sleep" /\ otcStatus = "not_bound" /\ bindFile = NoFile
  /\ ~stopping /\ OwnPageOpen

\* C13: the identity check that follows a navigation lets the supervisor into
\* Watching only when the location the page ended at classifies as channel.
C13_NonChannelRejected ==
  [][(pc = "verify" /\ pc' = "baseline")
       => classifyUrl(pgUrl) = "channel"]_vars

\* C14: an identity check that reads a support title ends with the support
\* warning and the wait, and baseline capture and observer installation run
\* only while the latest identity check was not a support match.
C14_SupportStep ==
  (pc = "verify" /\ pc' # pc /\ OwnPageOpen /\ otcStatus' = "support")
  => (pc' = "otc_sleep" /\ supportChatDetected')

C14_SupportNotWatched ==
  /\ [][C14_SupportStep]_vars
  /\ [](pc \in WatchPcs => otcStatus \in {"no_title", "title_ok"})

\* the supervisor waits after a support match
C14_Witness ==
  pc = "otc_sleep" /\ otcStatus = "support" /\ supportChatDetected /\ ~stopping

\* C15: a round whose candidate is the one last attempted, with that attempt
\* rejected by the identity guard, goes to the identity check without a
\* navigation; a round navigates only when the candidate differs from the
\* last attempted one or the last attempt was not rejected.
C15_RevalidateStep ==
  (pc = "otc_loop" /\ pc' # pc /\ pc' \in {"open_goto", "verify"})
  => IF cand' = lastAttemptUrl /\ supportChatDetected
     THEN pc' = "verify" /\ pgUrl' = pgUrl /\ lastAttemptUrl' = lastAttemptUrl
     ELSE pc' = "open_goto"

C15_NoRedundantNavigation == [][C15_RevalidateStep]_vars

\* the rejected candidate is checked again without a navigation
C15_Witness ==
  /\ pc = "verify" /\ supportChatDetected /\ cand = lastAttemptUrl
  /\ otcStatus = "support"

\* C16: once openTargetChat has returned true, watchLoop returns to the loop
\* head only when the stop signal has been given.
C16_WatchEndsOnlyOnStop ==
  [][(pc \in {"verify", "push", "poll"} /\ pc' = "loop") => stopping]_vars

\* C17: in every watch session that runs on the push observer, the sink
\* __emitAvitoMessage is registered on the page of that session.
C17_SinkRegistered ==
  (pc = "push" /\ OwnPageOpen /\ pgObserver) => pgBridge

\* C18: the watcher's read of the binding file never raises: a missing file,
\* a path that cannot be read, text that is not JSON, an empty url and a url
\* that is not a channel all yield null, and the round of openTargetChat that
\* made the read goes to the wait without an error.
C18_ReadStep ==
  (pc = "otc_loop" /\ pc' # pc /\ ~stopping /\ direct = Empty
     /\ (bindFile \in {NoFile, Unreadable, Malformed, Empty}
           \/ classifyUrl(bindFile) # "channel"))
  => pc' = "otc_sleep" /\ failure' = failure /\ errCount' = errCount

C19_ClearUnbinds ==
  [][clears' # clears
       => readBoundChatUrl(bindFile') = Empty /\ read(bindFile') = Empty]_vars

\* the events of a sequence carry rising emit numbers: the order of the emit
\* calls, and none twice
InEmitOrder(q) == \A i \in 1..(Len(q) - 1) : q[i] < q[i + 1]

\* C20: what a socket was sent is in the order of the emit calls, with no
\* event twice, so any two sockets see any two events in the same order; the
\* replay comes first, in the order of the emit calls, and holds only events
\* emitted before the socket attached, and all that follows was emitted after.
C20_DeliveryOrder ==
  \A c \in clients :
    /\ InEmitOrder(recv[c])
    /\ replayed[c] <= Len(recv[c])
    /\ \A i \in 1..Len(recv[c]) : (i <= replayed[c]) <=> (recv[c][i] <= attachAt[c])
    /\ \A d \in clients :
         \A i \in 1..Len(recv[c]) :
           recv[c][i] > attachAt[d] /\ recv[c][i] > attachAt[c]
             => recv[d][Len(recv[d]) - (Len(recv[c]) - i)] = recv[c][i]

\* two sockets attached at different times, the first after the buffer began
\* to drop old events; both got a replay and live events after it
C20_Witness ==
  /\ clients = Sockets
  /\ attachAt[1] > HISTORY_LIMIT /\ attachAt[2] > attachAt[1]
  /\ replayed[1] = HISTORY_LIMIT /\ Len(recv[1]) > replayed[1]
  /\ Len(recv[2]) > replayed[2]

\* the smaller of two numbers
Min(a, b) == IF a < b THEN a ELSE b

\* the last k of the events 1..n, in the order of the emit calls
MostRecent(n, k) == [i \in 1..k |-> n - k + i]

\* C21: the history never holds more than 50 events; after n emits it holds
\* the most recent min(n, 50) events in the order of the emit calls; and a
\* socket that attaches is sent that buffer, event for event.
C21_BufferInv ==
  /\ Len(history) <= HISTORY_LIMIT
  /\ history = MostRecent(emitted, Min(emitted, HISTORY_LIMIT))

C21_AttachStep ==
  \A c \in Sockets :
    (c \notin clients /\ c \in clients')
      => recv'[c] = MostRecent(emitted, Min(emitted, HISTORY_LIMIT))

InMessenger(u) == u.host \in {"avito", "rel"} /\ u.seg \in {"pm", "m"}

\* C22: a location of the channel shape classifies as channel, with any query
\* string or none, although it matches the messenger pattern as well.
C22_ChannelFirst ==
  (clsKind # "" /\ InMessenger(clsIn) /\ clsIn.chan # "")
    => clsKind = "channel"

\* a relative channel location with a q= query was classified
C22_Witness ==
  /\ clsIn = Url("rel", "m", "a", "q") /\ clsKind = "channel"
  /\ isMessengerUrl(normalizeUrl(clsIn))

C24_EmptyIsNone ==
  clsIn = Empty => /\ clsKind \in {"", "none"}
                   /\ bindKind \in {"", "none"}

\* the positions of runLoop inside openTargetChat and watchLoop
ResolvingPcs == {"otc_enter", "otc_loop", "otc_sleep", "open_goto", "verify"}

\* C25: in headless mode an iteration whose page is on the login view after
\* the cookie and credential attempts emits the AUTH_REQUIRED error status and
\* fails, in the first iteration as in every retry; openMessengerWithAuth
\* never returns with the page on the login view, and the failure goes
\* through recovery to the next iteration.
C25_AuthStep ==
  /\ (pc = "auth" /\ headless /\ includesLogin(pgUrl'))
       => /\ pc' = "catch" /\ failure' = "AuthenticationRequired"
          /\ errCount' = errCount + 1
  /\ (pc \in {"auth", "manual_login"} /\ pc' \in ResolvingPcs)
       => ~includesLogin(pgUrl')

C25_HeadlessAuthRequired ==
  /\ [][C25_AuthStep]_vars
  /\ [](headless => pc # "manual_login")
  /\ (pc = "catch" /\ failure = "AuthenticationRequired") ~> (pc = "loop")

\* the retry has failed with the same error as the first iteration
C25_Witness ==
  /\ headless /\ iter = 2 /\ pc = "catch"
  /\ failure = "AuthenticationRequired" /\ errCount = 1

\* C26: with a visible browser the wait for a human login ends: with the
\* login-timeout error, which goes to recovery, when the page is still on the
\* login view, and with the supervisor going on to openTargetChat when the
\* page has left the login view.
C26_WaitStep ==
  (pc = "manual_login" /\ pc' # pc)
  => IF includesLogin(pgUrl)
     THEN pc' = "catch" /\ failure' = "AuthenticationTimeout"
     ELSE pc' = "otc_enter" /\ failure' = failure /\ errCount' = errCount

C26_LoginWaitBounded ==
  /\ [][C26_WaitStep]_vars
  /\ [](pc = "manual_login" => ~headless)
  /\ (pc = "manual_login") ~> (pc \in {"catch", "otc_enter"})
  /\ (pc = "catch" /\ failure = "AuthenticationTimeout") ~> (pc = "loop")

\* the deadline has passed with the page still on the login view
C26_Witness ==
  /\ ~headless /\ pc = "catch" /\ failure = "AuthenticationTimeout"
  /\ includesLogin(pgUrl)

\* C27: in the push branch and in the polling branch, the next check of the
\* loop after the page went to a login view raises the session-expired
\* error, which unwinds to the catch block of runLoop: the loop does not
\* return because of it, and the check does come.
C27_CheckStep ==
  (pc \in {"push", "poll"} /\ ~stopping /\ includesLogin(pgUrl) /\ pc' # pc)
  => pc' = "catch" /\ failure' = "SessionExpired"

C27_SessionExpiry ==
  /\ [][C27_CheckStep]_vars
  /\ (pc \in {"push", "poll", "poll_read"} /\ includesLogin(pgUrl))
       ~> (pc = "catch" \/ stopping)

\* the push branch of the second session has raised the error
C27_Witness ==
  /\ pc = "catch" /\ failure = "SessionExpired" /\ pgObserver /\ iter = 2
  /\ ~stopping

\* the awaits of the recovery between the catch block and the next start
RecoveryPcs == {"close_page", "close_browser", "cooldown", "loop", "launch"}

\* C28: whatever step of dumpDebugArtifacts fails, the catch block of runLoop
\* goes on: the error status event is emitted with the message of the
\* exception that was caught, safeClose is entered, and unless the stop
\* signal is given the cooldown passes and a new session is started; the
\* promise of runLoop is never rejected by the dump.
C28_CatchStep ==
  (pc = "catch" /\ pc' # pc)
  => /\ failure' = failure
     /\ Len(rec') >= 2 /\ SubSeq(rec', 1, 2) = <<"dump", "error">>
     /\ pc' \in {"close_page", "close_browser", "cooldown"}

C28_DumpFailInv ==
  /\ pc # "rejected"
  /\ (dumpFail /\ pc \in RecoveryPcs /\ rec # <<>>)
       => (failure # "" /\ IsPrefix(rec, RecoverySteps) /\ Len(rec) >= 2)

C28_DiagnosticsFailure ==
  /\ [][C28_CatchStep]_vars
  /\ []C28_DumpFailInv
  /\ (dumpFail /\ pc \in {"close_page", "close_browser", "cooldown"})
       ~> (stopping \/ iter = MaxIter
             \/ (pc = "launch" /\ rec = RecoverySteps /\ dumpFail))

\* a new session is being started after an error whose dump failed
C28_Witness ==
  /\ dumpFail /\ pc = "launch" /\ rec = RecoverySteps /\ failure # ""
  /\ ~stopping

\* C29: a write of the binding file that fails is reported as a warning
\* status event and nothing else: the auto-bind path of the watcher does not
\* swallow it in silence, and POST /bind/current does not end in an
\* exception.
C29_WriteFailureWarned == ioFail \notin {"silent", "raised"}

\* the health checks that have settled
HealthSettled == healthChecks - healthInflight

\* C30: no two consecutive health status events carry the same summary; a
\* check whose summary equals the one last reported emits nothing, any other
\* check emits exactly its summary; checks may overlap and settle in any
\* order.
C30_SettleStep ==
  healthInflight' < healthInflight
  => IF lastChecked' = lastHealthSummary
     THEN healthLog' = healthLog /\ lastHealthSummary' = lastHealthSummary
     ELSE healthLog' = Append(healthLog, lastChecked')
            /\ lastHealthSummary' = lastChecked'

C30_LogInv ==
  /\ \A i \in 1..(Len(healthLog) - 1) : healthLog[i] # healthLog[i + 1]
  /\ lastHealthSummary = IF healthLog = <<>> THEN Null
                         ELSE healthLog[Len(healthLog)]
  /\ Len(healthLog) <= HealthSettled

C30_OnlyChanges ==
  /\ [][C30_SettleStep]_vars
  /\ []C30_LogInv
  /\ [][healthLog' # healthLog => healthInflight' < healthInflight]_vars

\* a check repeated the summary last reported and was not reported, after
\* the health had gone from ok to fail and back
C30_Witness ==
  /\ Len(healthLog) = 3 /\ healthLog[1] = healthLog[3]
  /\ HealthSettled = 4 /\ lastChecked = lastHealthSummary

\* a complete record of the binding file: {"url": a location}
CompleteRecord(file) == file \notin {NoFile, Malformed, Unreadable}

\* C31: whenever the auto-bind of the watcher or a bind request has written
\* the binding file, the file holds the complete record of that write, the
\* last one; what a reader finds is never a record cut short.
C31_LastWriterWins ==
  [][(bindFile' # bindFile /\ clears' = clears)
       => CompleteRecord(bindFile')]_vars

\* C32: a step of the watcher changes the binding file only with
\* AUTO_BIND_ON_OPEN set, and then only as the step that has opened a
\* conversation, to the location of that conversation.
C32_AutoBindFrame ==
  [][bindFile' # bindFile
       => /\ autoBind
          /\ pc = "open_goto" /\ pc' = "verify"
          /\ isMessengerChannelUrl(pgUrl') /\ bindFile' = pgUrl']_vars

\* C33: whatever the failure and wherever it was raised, while the stop
\* signal is not given the supervisor attempts the dump, emits the error
\* status, closes the session, waits the cooldown and starts a new session,
\* in this order; the recovery of a failure does not depend on the failures
\* before it, and it always gets to the new start.
C33_RecoveryInv ==
  (failure # "" /\ ~stopping) =>
    /\ IsPrefix(rec, RecoverySteps)
    /\ pc \in {"catch", "close_page", "close_browser", "cooldown", "loop",
               "launch"}
    /\ pc = "catch" => rec = <<>>
    /\ pc \in {"close_page", "close_browser"} => Len(rec) = 2
    /\ pc = "cooldown" =>
         (Len(rec) = 3 /\ page = 0 /\ browser = 0
            /\ iter \notin openBrowsers /\ iter \notin openPages)
    /\ pc = "loop" => Len(rec) = 4
    /\ pc = "launch" => rec = RecoverySteps

C33_RecoveryOrder ==
  /\ []C33_RecoveryInv
  /\ [][(pc = "catch" /\ pc' # pc) => failure' = failure]_vars
  /\ (pc = "catch")
       ~> (stopping \/ iter = MaxIter \/ (pc = "launch" /\ rec = RecoverySteps))
  /\ (pc = "catch" /\ iter = MaxIter) ~> (stopping \/ pc = "loop")

\* the second launch in a row has failed and its recovery is through the
\* cooldown: the first iteration never got as far as the messenger
C33_Witness ==
  /\ pc = "loop" /\ iter = 2 /\ failure = "SessionStartFailure"
  /\ Len(rec) = 4 /\ lastMessengerUrl = Empty /\ pgUrl = Blank /\ ~stopping

\* C34: baseline capture leaves the suppression floor at the fingerprint of
\* the last message readLastMessage finds in the conversation now open, and
\* empty when it finds none: never at a fingerprint of an earlier session.
C34_FloorReset ==
  [][(pc = "baseline" /\ pc' \in {"expose", "install"})
       => lastFingerprint' =
            IF readLastMessage(pgNodes, pgLast) = ""
            THEN ""
            ELSE Fingerprint(From, readLastMessage(pgNodes, pgLast))]_vars

\* C35: this.page goes from one page to another only through setActivePage:
\* the page it then refers to is in the messenger area, and the step emits
\* one 'Switched active page' status that names it.
C35_AdoptOnly ==
  [][(activeTab' # activeTab /\ activeTab # "none")
       => /\ isMessengerUrl(tabLoc'[activeTab'])
          /\ switchLog' = Append(switchLog,
                [tab |-> activeTab', url |-> tabLoc'[activeTab']])]_vars

\* C36: a node added to the observed conversation while the grace period of
\* the observer runs is not inspected and produces no message event; a node
\* that is inspected was added with the observer attached and the grace
\* period over; as long as the grace period runs the session has emitted
\* nothing.
C36_AppendStep ==
  appended' # appended
  => /\ (pgObserver /\ ~pgGrace)
          => UNCHANGED <<presented, pgSeen, sessMsgs, lastMsg, lastFingerprint>>
     /\ (presented' # presented \/ sessMsgs' # sessMsgs)
          => (pgObserver /\ pgGrace)

C36_GraceInv ==
  (pgObserver /\ ~pgGrace) => (sessMsgs = <<>> /\ presented = <<>>)

C36_GracePeriod == [][C36_AppendStep]_vars /\ []C36_GraceInv

\* a message was added during the grace period and another one after it:
\* only the second was published
C36_Witness ==
  /\ pc = "push" /\ pgObserver /\ pgGrace /\ pgSkipped
  /\ appended = 2 /\ Len(sessMsgs) = 1 /\ presented = sessMsgs
  /\ baseMsg # "" /\ lastFingerprint # floor0

\* ---------------------------------------------------------------------
\* C37: navigating to the persisted binding never makes the binding
\* unreadable: when readBoundChatUrl returned the location that openChatUrl
\* is run on, readBoundChatUrl still returns a location after openChatUrl,
\* whatever page the navigation ended on and whatever AUTO_BIND_ON_OPEN is.
C37_BindingSurvivesOpen ==
  [][(/\ pc = "open_goto" /\ pc' = "verify"
      /\ readBoundChatUrl(bindFile) # Empty
      /\ cand = readBoundChatUrl(bindFile))
       => readBoundChatUrl(bindFile') # Empty]_vars

\* ---------------------------------------------------------------------
\* C38: while the supervisor is in Resolving (waiting unbound, or after a
\* support-chat rejection), an external bind to a new channel location that
\* differs from the last attempted one is eventually picked up without a
\* session restart: the supervisor navigates to the new location on a
\* following round of the loop of openTargetChat.
ResolvingPcsOfLoop == {"otc_loop", "otc_sleep"}

\* the binding file holds channel location u, which was not the last attempt
BoundAnew(u, i) ==
  /\ iter = i /\ pc \in ResolvingPcsOfLoop /\ ~stopping
  /\ readBoundChatUrl(bindFile) = u /\ u # lastAttemptUrl

\* openChatUrl is running on u in the same session, unless the stop signal
\* came or the binding was replaced first
PickedUp(u, i) ==
  \/ iter = i /\ pc = "open_goto" /\ cand = u
  \/ stopping
  \/ readBoundChatUrl(bindFile) # u

\* as stated: for every configuration
C38_BindPickedUpAlways ==
  \A u \in {ChanA, ChanB} : \A i \in 1..MaxIter :
    BoundAnew(u, i) ~> PickedUp(u, i)

\* amended: when TARGET_CHAT_URL is not set
C38_BindPickedUp ==
  \A u \in {ChanA, ChanB} : \A i \in 1..MaxIter :
    (BoundAnew(u, i) /\ direct = Empty) ~> PickedUp(u, i)

\* the location bound during this session, after a support-chat rejection
\* of another location, is being opened
C38_Witness ==
  /\ pc = "open_goto" /\ direct = Empty /\ ~stopping
  /\ boundAt = iter /\ cand = boundUrl /\ cand = readBoundChatUrl(bindFile)
  /\ lastAttemptUrl \notin {Empty, cand}

\* ---------------------------------------------------------------------
\* C39: for every failure that sends an iteration of the supervisor to
\* recovery, in any state and not only for session expiry, exactly one status
\* event of level error is emitted for that iteration.
C39_OneErrorStatus ==
  (failure # "" /\ Len(rec) >= 2) => errCount = 1

\* ---------------------------------------------------------------------
\* C40: stopping the Cloudpub tunnel always completes: the promise of
\* onModuleDestroy is eventually resolved, whether the child process is
\* still running, ignores SIGTERM (it is then sent SIGKILL after the 5 s
\* grace period), or had already exited before the stop was requested.
C40_StopCompletes == cpStopping ~> (cpPc = "stopped")

====
